---- MODULE Spec2Model ----
(***************************************************************************)
(* Model of datacompare: the reconciliation engine                         *)
(* (src/src/datacompare/comparison_engine.py), the column mapper           *)
(* (src/src/datacompare/column_mapper.py), the identifier handler          *)
(* (src/src/datacompare/id_handler.py), the detection of the file format   *)
(* (src/src/datacompare/datasource.py) and the command line                *)
(* (src/src/datacompare/cli.py).                                           *)
(*                                                                         *)
(* Text is modelled as a sequence of one-character strings so that         *)
(* str.strip() and str.lower() are computed, not assumed.  The null value  *)
(* (None / NaN, anything pd.isna accepts) is the one-element sequence      *)
(* Null, whose element is no character.                                    *)
(***************************************************************************)
EXTENDS Integers, Sequences, FiniteSets, TLC

VARIABLES
    source1_data,    \* ComparisonEngine.source1_data: [columns, rows]
    source2_data,    \* ComparisonEngine.source2_data: [columns, rows]
    id_columns,      \* ComparisonEngine.id_columns: sequence of column names
    column_mapping,  \* ComparisonEngine.column_mapping: source1 col -> source2 col
    config,          \* ComparisonEngine.config: ComparisonConfig
    pc,              \* "ready" before compare() is called, "done" after
    partition,       \* the locals of compare(): the three key sets (lines 47-49)
    result,          \* what compare() returned, or the exception it raised
    source1_columns, \* ColumnMapper.source1_columns: sequence of column names
    source2_columns, \* ColumnMapper.source2_columns: sequence of column names
    files,           \* the file system load_mapping_config reads: path -> content
    columns,         \* IDHandler.columns: sequence of column names
    data_sample,     \* IDHandler.data_sample: sequence of rows (column -> value)
    call,            \* the last call on the mapper or the handler and its outcome
    args,            \* main(): the parsed command line
    exit_code,       \* main(): the exit status, 1 once sys.exit(1) was called
    stderr,          \* main(): what was printed to sys.stderr, in order
    stdout           \* main(): what was printed to sys.stdout, in order

vars == <<source1_data, source2_data, id_columns, column_mapping, config,
          pc, partition, result,
          source1_columns, source2_columns, files, columns, data_sample, call,
          args, exit_code, stderr, stdout>>

\* the fields of the engine, of the mapper and of the handler
engine_vars == <<source1_data, source2_data, id_columns, column_mapping, config>>

mapper_vars == <<source1_columns, source2_columns, files>>

handler_vars == <<columns, data_sample>>

\* the state of a run of main()
cli_vars == <<args, exit_code, stderr, stdout>>

----------------------------------------------------------------------------
(* Bounds of the model *)

\* rows per batch in the inputs that vary the keys
MaxRows == 2

\* rows per batch in the inputs that vary the text of the values
MaxValueRows == 1

----------------------------------------------------------------------------
(* Values and text *)

Null == <<"NULL">>

Range(s) == {s[i] : i \in DOMAIN s}

\* pd.isna(value)
IsNa(v) == v = Null

\* str(value): text is kept, the null value prints as "None"
Str(v) == IF v = Null THEN <<"N", "o", "n", "e">> ELSE v

Whitespace == {" ", "\t", "\n"}

UpperLetters ==
    <<"A", "B", "C", "D", "E", "F", "G", "H", "I", "J", "K", "L", "M",
      "N", "O", "P", "Q", "R", "S", "T", "U", "V", "W", "X", "Y", "Z">>

LowerLetters ==
    <<"a", "b", "c", "d", "e", "f", "g", "h", "i", "j", "k", "l", "m",
      "n", "o", "p", "q", "r", "s", "t", "u", "v", "w", "x", "y", "z">>

CharLower(c) ==
    IF \E i \in DOMAIN UpperLetters : UpperLetters[i] = c
    THEN LowerLetters[CHOOSE i \in DOMAIN UpperLetters : UpperLetters[i] = c]
    ELSE c

\* str.lower()
Lower(s) == [i \in 1..Len(s) |-> CharLower(s[i])]

\* str.strip(): drops leading and trailing whitespace
Strip(s) ==
    LET keep == {i \in 1..Len(s) : s[i] \notin Whitespace}
    IN  IF keep = {} THEN <<>>
        ELSE LET lo == CHOOSE i \in keep : \A j \in keep : i <= j
                 hi == CHOOSE i \in keep : \A j \in keep : j <= i
             IN  SubSeq(s, lo, hi)

\* dict.get(col): the value, or None when the column is not in the row
Get(row, col) == IF col \in DOMAIN row THEN row[col] ELSE Null

\* iteration order of a Python set: some fixed order of its elements
RECURSIVE SetToSeq(_)
SetToSeq(S) ==
    IF S = {} THEN <<>>
    ELSE LET x == CHOOSE y \in S : TRUE
         IN  <<x>> \o SetToSeq(S \ {x})

----------------------------------------------------------------------------
(* ComparisonEngine *)

\* ComparisonConfig.columns_to_compare = None
ColumnsNone == <<"<None>">>

\* truth value of config.columns_to_compare: None and [] are both false
Truthy(cols) == cols # ColumnsNone /\ cols # <<>>

\* column_mapping.get(id_col, id_col)
MappedIdColumn(id_col) ==
    IF id_col \in DOMAIN column_mapping THEN column_mapping[id_col] ELSE id_col

\* the column _create_index reads for the i-th identifier of a row
IndexColumn(i, is_source2) ==
    IF is_source2 THEN MappedIdColumn(id_columns[i]) ELSE id_columns[i]

\* the key if the texts of the identifier values were joined into one text
RowKeyJoined(row, is_source2) ==
    LET joined[i \in 0..Len(id_columns)] ==
            IF i = 0 THEN <<>>
            ELSE joined[i - 1] \o Str(row[IndexColumn(i, is_source2)])
    IN  <<joined[Len(id_columns)]>>

\* key = tuple(str(row[col]) for col in ...)
RowKey(row, is_source2) ==
    [i \in 1..Len(id_columns) |-> Str(row[IndexColumn(i, is_source2)])]

\* {col: str(val) if pd.notna(val) else val for col, val in row.items()}
IndexRow(row) ==
    [col \in DOMAIN row |-> IF ~IsNa(row[col]) THEN Str(row[col]) ELSE row[col]]

\* row[col] raises KeyError for a column the frame does not have
CreateIndexRaises(data, is_source2) ==
    /\ data.rows # <<>>
    /\ \E i \in 1..Len(id_columns) :
          IndexColumn(i, is_source2) \notin Range(data.columns)

\* the index after the first n rows if a key once entered were kept
RECURSIVE IndexUpToFirstWins(_, _, _)
IndexUpToFirstWins(data, is_source2, n) ==
    IF n = 0 THEN <<>>
    ELSE LET prev == IndexUpToFirstWins(data, is_source2, n - 1)
             row  == data.rows[n]
             key  == RowKey(row, is_source2)
         IN  [k \in (DOMAIN prev) \cup {key} |->
                 IF k \in DOMAIN prev THEN prev[k] ELSE IndexRow(row)]

\* the index after the first n rows: a later row replaces an earlier one
RECURSIVE IndexUpTo(_, _, _)
IndexUpTo(data, is_source2, n) ==
    IF n = 0 THEN <<>>
    ELSE LET prev == IndexUpTo(data, is_source2, n - 1)
             row  == data.rows[n]
             key  == RowKey(row, is_source2)
         IN  [k \in (DOMAIN prev) \cup {key} |->
                 IF k = key THEN IndexRow(row) ELSE prev[k]]

CreateIndex(data, is_source2) == IndexUpTo(data, is_source2, Len(data.rows))

\* columns_to_compare if given and non-empty, else column_mapping.keys()
ColumnsToCompare ==
    IF Truthy(config.columns_to_compare) THEN config.columns_to_compare
    ELSE SetToSeq(DOMAIN column_mapping)

\* bug: case_sensitive is not consulted
CompareNormalizeNoLower(value) ==
    IF config.trim_strings THEN Strip(Str(value)) ELSE Str(value)

\* lines 132-141: str, then strip, then lower
CompareNormalize(value) ==
    LET s == Str(value)
        t == IF config.trim_strings THEN Strip(s) ELSE s
    IN  IF ~config.case_sensitive THEN Lower(t) ELSE t

\* bug: no pd.isna test, and NaN != NaN
ColumnDiffersNaN(row1, row2, source1_col) ==
    LET value1 == Get(row1, source1_col)
        value2 == Get(row2, column_mapping[source1_col])
    IN  IF IsNa(value1) \/ IsNa(value2) THEN TRUE
        ELSE CompareNormalize(value1) # CompareNormalize(value2)

\* one pass of the loop body of _compare_rows: does this column differ?
ColumnDiffers(row1, row2, source1_col) ==
    LET source2_col == column_mapping[source1_col]
        value1 == Get(row1, source1_col)
        value2 == Get(row2, source2_col)
    IN  IF IsNa(value1) /\ IsNa(value2) THEN FALSE
        ELSE IF ~IsNa(value1) /\ ~IsNa(value2)
             THEN CompareNormalize(value1) # CompareNormalize(value2)
             ELSE value1 # value2

NoDiff == [raised |-> FALSE, diff |-> FALSE]

\* bug: the diff holds the differing columns only
CompareRowsDiffOnly(row1, row2) ==
    LET cols == ColumnsToCompare
        diff == {cols[i] : i \in {j \in 1..Len(cols) : ColumnDiffers(row1, row2, cols[j])}}
    IN  IF \E i \in 1..Len(cols) : cols[i] \notin DOMAIN column_mapping
        THEN [raised |-> TRUE, diff |-> FALSE]
        ELSE IF diff # {}
             THEN [raised |-> FALSE, diff |-> TRUE,
                   source1_value |-> [c \in diff |-> Get(row1, c)],
                   source2_value |-> [c \in {column_mapping[d] : d \in diff} |-> Get(row2, c)]]
             ELSE NoDiff

\* bug: the loop returns after the first column
CompareRowsFirstOnly(row1, row2) ==
    LET cols == ColumnsToCompare
    IN  IF cols # <<>> /\ ColumnDiffers(row1, row2, cols[1])
        THEN [raised |-> FALSE, diff |-> TRUE,
              source1_value |-> row1, source2_value |-> row2]
        ELSE NoDiff

\* _compare_rows: None, the two rows, or KeyError from column_mapping[col]
CompareRows(row1, row2) ==
    LET cols == ColumnsToCompare
    IN  IF \E i \in 1..Len(cols) : cols[i] \notin DOMAIN column_mapping
        THEN [raised |-> TRUE, diff |-> FALSE]
        ELSE IF \E i \in 1..Len(cols) : ColumnDiffers(row1, row2, cols[i])
             THEN [raised |-> FALSE, diff |-> TRUE,
                   source1_value |-> row1, source2_value |-> row2]
             ELSE NoDiff

\* the second copy of the normalisation without its strip
StatsNormalizeNoStrip(value) ==
    IF ~config.case_sensitive THEN Lower(Str(value)) ELSE Str(value)

\* lines 179-188: the same normalisation, written a second time
StatsNormalize(value) ==
    LET s == Str(value)
        t == IF config.trim_strings THEN Strip(s) ELSE s
    IN  IF ~config.case_sensitive THEN Lower(t) ELSE t

\* bug: no pd.isna test, and NaN == NaN is false
ColumnMatchesNaN(row1, row2, source1_col, source2_col) ==
    LET value1 == Get(row1, source1_col)
        value2 == Get(row2, source2_col)
    IN  /\ ~IsNa(value1) /\ ~IsNa(value2)
        /\ StatsNormalize(value1) = StatsNormalize(value2)

\* bug: a column matches only in a row without any difference
ColumnMatchesWholeRow(row1, row2, source1_col, source2_col) ==
    ~CompareRows(row1, row2).diff

\* one pass of the inner loop of _calculate_column_stats: is it a match?
ColumnMatches(row1, row2, source1_col, source2_col) ==
    LET value1 == Get(row1, source1_col)
        value2 == Get(row2, source2_col)
    IN  IF IsNa(value1) /\ IsNa(value2) THEN TRUE
        ELSE IF ~IsNa(value1) /\ ~IsNa(value2)
             THEN StatsNormalize(value1) = StatsNormalize(value2)
             ELSE FALSE

\* the columns _calculate_column_stats reports on
StatsColumns == DOMAIN column_mapping

\* _calculate_column_stats: matches[col] / total, kept as the pair
CalculateColumnStats(source1_index, source2_index, common_ids) ==
    IF common_ids = {} THEN <<>>
    ELSE [col \in StatsColumns |->
            [matches |-> Cardinality({id \in common_ids :
                            ColumnMatches(source1_index[id], source2_index[id],
                                          col, column_mapping[col])}),
             total   |-> Cardinality(common_ids)]]

\* dict(zip(self.id_columns, id_))
ZipId(id) ==
    [col \in Range(id_columns) |->
        id[CHOOSE i \in 1..Len(id_columns) :
             /\ id_columns[i] = col
             /\ \A j \in 1..Len(id_columns) : id_columns[j] = col => j <= i]]

\* unique_to_source1 = source1_ids - source2_ids
UniqueToSource1(source1_ids, source2_ids) == source1_ids \ source2_ids

\* bug: every key of source 2 is taken as unique to it
UniqueToSource2All(source1_ids, source2_ids) == source2_ids

\* unique_to_source2 = source2_ids - source1_ids
UniqueToSource2(source1_ids, source2_ids) == source2_ids \ source1_ids

\* common_ids = source1_ids & source2_ids
CommonIds(source1_ids, source2_ids) == source1_ids \cap source2_ids

NoPartition == [computed |-> FALSE]

Raised(kind) == [status |-> kind]

\* differences: one diff_row for each common id whose rows differ
Differences(source1_index, source2_index, common_seq) ==
    LET hits == SelectSeq(common_seq,
                  LAMBDA id : CompareRows(source1_index[id], source2_index[id]).diff)
    IN  [n \in 1..Len(hits) |->
            LET d == CompareRows(source1_index[hits[n]], source2_index[hits[n]])
            IN  [id |-> ZipId(hits[n]),
                 source1_value |-> d.source1_value,
                 source2_value |-> d.source2_value]]

\* compare(): the locals it computed and what it returned or raised
Compare ==
    IF CreateIndexRaises(source1_data, FALSE) \/ CreateIndexRaises(source2_data, TRUE)
    THEN [partition |-> NoPartition, result |-> Raised("KeyError")]
    ELSE
    LET source1_index == CreateIndex(source1_data, FALSE)
        source2_index == CreateIndex(source2_data, TRUE)
        source1_ids == DOMAIN source1_index
        source2_ids == DOMAIN source2_index
        unique1 == UniqueToSource1(source1_ids, source2_ids)
        unique2 == UniqueToSource2(source1_ids, source2_ids)
        common  == CommonIds(source1_ids, source2_ids)
        part == [computed |-> TRUE, unique_to_source1 |-> unique1,
                 unique_to_source2 |-> unique2, common_ids |-> common]
        seq1 == SetToSeq(unique1)
        seq2 == SetToSeq(unique2)
        seqc == SetToSeq(common)
    IN  IF \E id \in common : CompareRows(source1_index[id], source2_index[id]).raised
        THEN [partition |-> part, result |-> Raised("KeyError")]
        ELSE [partition |-> part,
              result |->
                [status |-> "ok",
                 unique_to_source1 |-> [n \in 1..Len(seq1) |-> source1_index[seq1[n]]],
                 unique_to_source2 |-> [n \in 1..Len(seq2) |-> source2_index[seq2[n]]],
                 differences |-> Differences(source1_index, source2_index, seqc),
                 column_stats |-> CalculateColumnStats(source1_index, source2_index, common)]]

----------------------------------------------------------------------------------------------------------------------------------------
(* Inputs *)

Columns == <<"id", "name", "value">>

Identity(S) == [c \in S |-> c]

\* source 2 names its identifier column "key"
KeyRenaming == [c \in Range(Columns) |-> IF c = "id" THEN "key" ELSE c]

RenameRow(row, ren) ==
    [c2 \in {ren[c] : c \in DOMAIN row} |->
        row[CHOOSE c \in DOMAIN row : ren[c] = c2]]

RenameRows(rows, ren) == [n \in 1..Len(rows) |-> RenameRow(rows[n], ren)]

RenameColumns(cols, ren) == [n \in 1..Len(cols) |-> ren[cols[n]]]

BatchesOf(records, max) == UNION {[1..n -> records] : n \in 0..max}

\* inputs that vary the keys: two identifiers, a nullable column, duplicates
KeyRecords == [id : {<<"1">>, <<"2">>}, name : {<<"a">>, Null}, value : {<<"x">>}]

\* inputs that vary the text: case, whitespace, null and plain differences
ValueRecords ==
    [id : {<<"1">>}, name : {<<"a">>, <<"A">>, <<" ", "a">>, Null},
     value : {<<"x">>, <<"y">>}]

Setup(ids, mapping, cols, ren) ==
    [id_columns |-> ids, column_mapping |-> mapping,
     columns_to_compare |-> cols, renaming |-> ren]

KeySetups ==
    { Setup(<<"id">>, Identity({"name", "value"}), ColumnsNone, Identity(Range(Columns))),
      Setup(<<"id">>, Identity({"name", "value"}), <<"value">>, Identity(Range(Columns))),
      Setup(<<"id">>, Identity({"name", "value"}), <<"ghost">>, Identity(Range(Columns))),
      Setup(<<"id">>, Identity({"id", "name", "value"}), ColumnsNone, Identity(Range(Columns))),
      Setup(<<"id">>, KeyRenaming, ColumnsNone, KeyRenaming),
      Setup(<<"id", "name">>, Identity({"name", "value"}), ColumnsNone, Identity(Range(Columns))) }

ValueSetups ==
    { Setup(<<"id">>, Identity({"name", "value"}), ColumnsNone, Identity(Range(Columns))),
      Setup(<<"id">>, Identity({"name", "value"}), <<"name">>, Identity(Range(Columns))),
      Setup(<<"id">>, Identity({"name", "value"}), <<>>, Identity(Range(Columns))) }

\* the data of the end-to-end scenario (tests: basic_data)
Alice == <<"A", "l", "i", "c", "e">>

Bob == <<"B", "o", "b">>

Charlie == <<"C", "h", "a", "r", "l", "i", "e">>

David == <<"D", "a", "v", "i", "d">>

Row(id, name, value) == [id |-> id, name |-> name, value |-> value]

ScenarioSource1 ==
    << Row(<<"1">>, Alice, <<"1", "0", "0">>),
       Row(<<"2">>, Bob, <<"2", "0", "0">>),
       Row(<<"3">>, Charlie, <<"3", "0", "0">>) >>

ScenarioSource2 ==
    << Row(<<"1">>, Alice, <<"1", "0", "0">>),
       Row(<<"2">>, Bob, <<"2", "5", "0">>),
       Row(<<"4">>, David, <<"4", "0", "0">>) >>

ScenarioSetups ==
    { Setup(<<"id">>, Identity({"name", "value"}), ColumnsNone, Identity(Range(Columns))),
      Setup(<<"id">>, Identity({"name", "value"}), <<"name">>, Identity(Range(Columns))) }

----------------------------------------------------------------------------
(* The state machine *)

\* ComparisonEngine.__init__ on given batches
InitWith(batches1, batches2, setups) ==
    \E rows1 \in batches1, rows2 \in batches2,
       setup \in setups, cs \in BOOLEAN, trim \in BOOLEAN :
        /\ source1_data = [columns |-> Columns, rows |-> rows1]
        /\ source2_data = [columns |-> RenameColumns(Columns, setup.renaming),
                           rows |-> RenameRows(rows2, setup.renaming)]
        /\ id_columns = setup.id_columns
        /\ column_mapping = setup.column_mapping
        /\ config = [case_sensitive |-> cs, trim_strings |-> trim,
                     columns_to_compare |-> setup.columns_to_compare]

\* ComparisonEngine.__init__ on inputs drawn from one family
InitFrom(records, max, setups) ==
    InitWith(BatchesOf(records, max), BatchesOf(records, max), setups)

\* no call made yet
NoCall == [op |-> "none"]

\* main() not run: no command line, nothing printed
NoCli ==
    /\ args = [source1 |-> <<>>, source2 |-> <<>>]
    /\ exit_code = 0
    /\ stderr = <<>>
    /\ stdout = <<>>

\* compare() not called yet
EngineReady ==
    /\ pc = "ready"
    /\ partition = NoPartition
    /\ result = [status |-> "none"]

\* no ColumnMapper constructed
NoMapper ==
    /\ source1_columns = <<>>
    /\ source2_columns = <<>>
    /\ files = <<>>

\* no IDHandler constructed
NoHandler ==
    /\ columns = <<>>
    /\ data_sample = <<>>

Init ==
    /\ \/ InitFrom(KeyRecords, MaxRows, KeySetups)
       \/ InitFrom(ValueRecords, MaxValueRows, ValueSetups)
       \/ InitWith({ScenarioSource1}, {ScenarioSource2}, ScenarioSetups)
    /\ EngineReady
    /\ NoMapper
    /\ NoHandler
    /\ call = NoCall
    /\ NoCli

\* compare() with the identifier columns rewritten in place to their source 2 names
DoCompareInPlace ==
    /\ pc = "ready"
    /\ pc' = "done"
    /\ partition' = Compare.partition
    /\ result' = Compare.result
    /\ id_columns' = [i \in 1..Len(id_columns) |-> MappedIdColumn(id_columns[i])]
    /\ UNCHANGED <<source1_data, source2_data, column_mapping, config>>
    /\ UNCHANGED <<mapper_vars, handler_vars, call, cli_vars>>

\* engine.compare()
DoCompare ==
    /\ pc = "ready"
    /\ pc' = "done"
    /\ partition' = Compare.partition
    /\ result' = Compare.result
    /\ UNCHANGED engine_vars
    /\ UNCHANGED <<mapper_vars, handler_vars, call, cli_vars>>

Next == DoCompare

Spec == Init /\ [][Next]_vars

----------------------------------------------------------------------------
(* The engine on identifier columns it cannot resolve, called repeatedly *)

\* identifier columns missing from source 1, from source 2, or from neither
UnresolvedKeySetups ==
    { Setup(<<"ghost">>, Identity({"name", "value"}), ColumnsNone, Identity(Range(Columns))),
      Setup(<<"id">>, KeyRenaming, ColumnsNone, Identity(Range(Columns))),
      Setup(<<"id">>, Identity({"name", "value"}), ColumnsNone, KeyRenaming),
      Setup(<<"id">>, KeyRenaming, ColumnsNone, KeyRenaming),
      Setup(<<"id">>, Identity({"name", "value"}), ColumnsNone, Identity(Range(Columns))) }

InitKeys ==
    /\ InitFrom(KeyRecords, MaxRows, UnresolvedKeySetups)
    /\ EngineReady
    /\ NoMapper
    /\ NoHandler
    /\ call = NoCall
    /\ NoCli

\* engine.compare() called again on the same engine
DoCompareAgain ==
    /\ pc \in {"done", "again"}
    /\ pc' = "again"
    /\ partition' = Compare.partition
    /\ result' = Compare.result
    /\ UNCHANGED engine_vars
    /\ UNCHANGED <<mapper_vars, handler_vars, call, cli_vars>>

NextKeys == DoCompare \/ DoCompareAgain

SpecKeys == InitKeys /\ [][NextKeys]_vars

----------------------------------------------------------------------------
(* Vocabulary of the properties *)

Done == pc = "done"

Returned == pc = "done" /\ result.status = "ok"

Rows1 == source1_data.rows

Rows2 == source2_data.rows

\* the composite-key sets of the two batches
Keys1 == {RowKey(Rows1[n], FALSE) : n \in DOMAIN Rows1}

Keys2 == {RowKey(Rows2[n], TRUE) : n \in DOMAIN Rows2}

\* the record a batch holds for a key: the last one in batch order
Last1(k) ==
    Rows1[CHOOSE n \in DOMAIN Rows1 :
            /\ RowKey(Rows1[n], FALSE) = k
            /\ \A m \in DOMAIN Rows1 : RowKey(Rows1[m], FALSE) = k => m <= n]

Last2(k) ==
    Rows2[CHOOSE n \in DOMAIN Rows2 :
            /\ RowKey(Rows2[n], TRUE) = k
            /\ \A m \in DOMAIN Rows2 : RowKey(Rows2[m], TRUE) = k => m <= n]

\* the two values of a compared column on a common key
Side1(k, col) == Get(Last1(k), col)

Side2(k, col) == Get(Last2(k), column_mapping[col])

\* the columns a call compares: the ones given, else those of the mapping
ComparedColumns ==
    IF Truthy(config.columns_to_compare) THEN Range(config.columns_to_compare)
    ELSE DOMAIN column_mapping

\* some column to compare is not in the correspondence
BadColumns == \E col \in ComparedColumns : col \notin DOMAIN column_mapping

\* the equality rule: trim, then fold case, then compare the text
RuleText(v) ==
    LET t == IF config.trim_strings THEN Strip(v) ELSE v
    IN  IF config.case_sensitive THEN t ELSE Lower(t)

RuleEqual(v1, v2) ==
    \/ v1 = Null /\ v2 = Null
    \/ v1 # Null /\ v2 # Null /\ RuleText(v1) = RuleText(v2)

Common == Keys1 \cap Keys2

Differs(k, col) == ~RuleEqual(Side1(k, col), Side2(k, col))

\* the rows of a result list that carry a key
RowsOf(rows, is_source2, k) ==
    {n \in DOMAIN rows : RowKey(rows[n], is_source2) = k}

BothNull(k, col) == Side1(k, col) = Null /\ Side2(k, col) = Null

OneNull(k, col) == (Side1(k, col) = Null) # (Side2(k, col) = Null)

BothPresent(k, col) == Side1(k, col) # Null /\ Side2(k, col) # Null

\* the entries of differing that belong to a key
EntriesOf(k) ==
    {n \in DOMAIN result.differences :
        \A i \in DOMAIN id_columns : result.differences[n].id[id_columns[i]] = k[i]}

Ratio(col) == result.column_stats[col]

----------------------------------------------------------------------------
(* C1 *)

\* C1: the key sets only-in-A, only-in-B and common are pairwise disjoint and
\* their union is the union of the composite-key sets of the two batches.
PartitionComplete ==
    (Done /\ partition.computed) =>
        /\ partition.unique_to_source1 \cap partition.unique_to_source2 = {}
        /\ partition.unique_to_source1 \cap partition.common_ids = {}
        /\ partition.unique_to_source2 \cap partition.common_ids = {}
        /\ partition.unique_to_source1 \cup partition.unique_to_source2
              \cup partition.common_ids = Keys1 \cup Keys2

\* a call on composite keys in which all three key sets are non-empty
PartitionCompleteWitness ==
    /\ Done /\ partition.computed
    /\ Len(id_columns) = 2
    /\ partition.unique_to_source1 # {}
    /\ partition.unique_to_source2 # {}
    /\ partition.common_ids # {}

----------------------------------------------------------------------------
(* C2 *)

\* C2: differing has an entry for a key iff the key is common and some
\* compared column differs under the equality rule, and then exactly one;
\* the two lists of unique rows hold exactly one record per key that is in
\* one index and not in the other.
DifferingExact ==
    Returned =>
        /\ \A k \in Keys1 \cup Keys2 :
              Cardinality(EntriesOf(k)) =
                 IF k \in Common /\ \E col \in ComparedColumns : Differs(k, col)
                 THEN 1 ELSE 0
        /\ \A n \in DOMAIN result.differences : \E k \in Common : n \in EntriesOf(k)
        /\ Len(result.unique_to_source1) = Cardinality(Keys1 \ Keys2)
        /\ \A k \in Keys1 \ Keys2 :
              Cardinality(RowsOf(result.unique_to_source1, FALSE, k)) = 1
        /\ Len(result.unique_to_source2) = Cardinality(Keys2 \ Keys1)
        /\ \A k \in Keys2 \ Keys1 :
              Cardinality(RowsOf(result.unique_to_source2, TRUE, k)) = 1

\* the end-to-end scenario: one row only in A, one only in B, one differing
\* entry, for id = 2, among two common keys
DifferingExactWitness ==
    /\ Returned
    /\ Len(result.unique_to_source1) = 1
    /\ Len(result.unique_to_source2) = 1
    /\ Len(result.differences) = 1
    /\ EntriesOf(<< <<"2">> >>) = {1}
    /\ Cardinality(Common) = 2

----------------------------------------------------------------------------
(* C3 *)

\* C3: on a common key a compared column whose two values are both null is
\* no difference and counts as a match in columnStats; a column with exactly
\* one null value is a difference and does not count as a match.
NullAwareEquality ==
    Returned =>
        /\ \A k \in Common :
              /\ (\E col \in ComparedColumns : OneNull(k, col)) => EntriesOf(k) # {}
              /\ (\A col \in ComparedColumns :
                     BothNull(k, col) \/ Side1(k, col) = Side2(k, col))
                 => EntriesOf(k) = {}
        /\ \A col \in DOMAIN result.column_stats :
              /\ Cardinality({k \in Common : BothNull(k, col)}) <= Ratio(col).matches
              /\ Ratio(col).matches <=
                    Ratio(col).total - Cardinality({k \in Common : OneNull(k, col)})

\* two common keys: on one a compared column is null on both sides and the
\* key is not reported, on the other it is null on one side and the key is
NullAwareEqualityWitness ==
    /\ Returned
    /\ \E k1 \in Common, k2 \in Common, col \in ComparedColumns :
          /\ BothNull(k1, col) /\ EntriesOf(k1) = {}
          /\ OneNull(k2, col) /\ EntriesOf(k2) # {}
          /\ Ratio(col).matches = 1 /\ Ratio(col).total = 2

----------------------------------------------------------------------------
(* C4 *)

\* two texts that differ, and only in the case of their letters
CaseOnly(v1, v2) ==
    /\ v1 # Null /\ v2 # Null /\ v1 # v2
    /\ Len(v1) = Len(v2)
    /\ \A i \in 1..Len(v1) : CharLower(v1[i]) = CharLower(v2[i])

\* two texts that differ, and only in leading or trailing whitespace
WhitespaceOnly(v1, v2) ==
    /\ v1 # Null /\ v2 # Null /\ v1 # v2
    /\ Strip(v1) = Strip(v2)

\* C4: with caseSensitive = false values that differ only in case are equal,
\* with trimWhitespace = true values that differ only in surrounding
\* whitespace are equal, with the defaults both pairs differ; columnStats
\* counts a match exactly where trim-then-fold makes the texts equal.
Normalization ==
    Returned =>
        /\ \A k \in Common :
              /\ ( /\ ~config.case_sensitive
                   /\ \A col \in ComparedColumns :
                         \/ Side1(k, col) = Side2(k, col)
                         \/ CaseOnly(Side1(k, col), Side2(k, col)) )
                 => EntriesOf(k) = {}
              /\ ( /\ config.trim_strings
                   /\ \A col \in ComparedColumns :
                         \/ Side1(k, col) = Side2(k, col)
                         \/ WhitespaceOnly(Side1(k, col), Side2(k, col)) )
                 => EntriesOf(k) = {}
              /\ ( /\ config.case_sensitive /\ ~config.trim_strings
                   /\ \E col \in ComparedColumns :
                         \/ CaseOnly(Side1(k, col), Side2(k, col))
                         \/ WhitespaceOnly(Side1(k, col), Side2(k, col)) )
                 => EntriesOf(k) # {}
        /\ \A col \in DOMAIN result.column_stats :
              Ratio(col).matches = Cardinality({k \in Common : ~Differs(k, col)})

\* case folding alone makes "a" and "A" equal: the key is not reported and
\* the column is a full match
NormalizationWitness ==
    /\ Returned
    /\ ~config.case_sensitive /\ ~config.trim_strings
    /\ \E k \in Common, col \in ComparedColumns :
          /\ CaseOnly(Side1(k, col), Side2(k, col))
          /\ EntriesOf(k) = {}
          /\ Ratio(col).matches = Ratio(col).total

----------------------------------------------------------------------------
(* C5 *)

\* C5: columnStats of a compared column is the number of common keys on
\* which that column did not differ, over the number of common keys, whatever
\* the other columns do; it lies in [0,1]; no common key, no columnStats.
ColumnStatsRatio ==
    Returned =>
        IF Common = {} THEN result.column_stats = <<>>
        ELSE \A col \in ComparedColumns :
                /\ col \in DOMAIN result.column_stats
                /\ Ratio(col).total = Cardinality(Common)
                /\ Ratio(col).matches =
                      Cardinality({k \in Common :
                          ~ColumnDiffers(CreateIndex(source1_data, FALSE)[k],
                                         CreateIndex(source2_data, TRUE)[k], col)})
                /\ 0 <= Ratio(col).matches
                /\ Ratio(col).matches <= Ratio(col).total
                /\ Ratio(col).total > 0

\* the scenario: name matches on both common keys, value on one of the two
ColumnStatsRatioWitness ==
    /\ Returned
    /\ Cardinality(Common) = 2
    /\ ComparedColumns = {"name", "value"}
    /\ Ratio("name") = [matches |-> 2, total |-> 2]
    /\ Ratio("value") = [matches |-> 1, total |-> 2]

----------------------------------------------------------------------------
(* C6 *)

\* C6: a mapped column left out of columnsToCompare, with values that really
\* differ on a common key, causes no differing entry and has no columnStats
\* entry.
ColumnScoping ==
    (Returned /\ Truthy(config.columns_to_compare)) =>
        \A col \in (DOMAIN column_mapping) \ ComparedColumns :
            (\E k \in Common : Differs(k, col)) =>
                /\ \A k \in Common :
                      (\A c \in ComparedColumns : ~Differs(k, c)) => EntriesOf(k) = {}
                /\ col \notin DOMAIN result.column_stats

----------------------------------------------------------------------------
(* C7 *)

\* C7: without columnsToCompare the columns compared and reported in
\* columnStats are the columns of the correspondence that are not part of
\* the identifier key.
DefaultColumns ==
    (Returned /\ ~Truthy(config.columns_to_compare) /\ Common # {}) =>
        /\ Range(ColumnsToCompare) = (DOMAIN column_mapping) \ Range(id_columns)
        /\ DOMAIN result.column_stats = (DOMAIN column_mapping) \ Range(id_columns)

----------------------------------------------------------------------------
(* C8 *)

\* source 2 is a copy of source 1 and the mapping sends columns to themselves
SelfCompare ==
    /\ source2_data = source1_data
    /\ \A col \in DOMAIN column_mapping : column_mapping[col] = col

\* C8: comparing a batch with a copy of itself gives no row unique to either
\* side, no differing entry and a columnStats of 1.0 for every column, also
\* with null values and duplicate keys in the batch.
SelfComparison ==
    (Done /\ SelfCompare /\ ~BadColumns) =>
        /\ result.status = "ok"
        /\ result.unique_to_source1 = <<>>
        /\ result.unique_to_source2 = <<>>
        /\ result.differences = <<>>
        /\ \A col \in DOMAIN result.column_stats :
              Ratio(col).matches = Ratio(col).total
        /\ Rows1 # <<>> => DOMAIN result.column_stats = DOMAIN column_mapping

\* a self-comparison of two rows with the same key, one of them with a null
SelfComparisonWitness ==
    /\ Done /\ SelfCompare /\ ~BadColumns
    /\ Len(Rows1) = 2
    /\ Cardinality(Keys1) = 1
    /\ \E n \in DOMAIN Rows1, col \in DOMAIN column_mapping : Rows1[n][col] = Null
    /\ \E col \in DOMAIN result.column_stats : Ratio(col).total = 1

----------------------------------------------------------------------------
(* C9 *)

----------------------------------------------------------------------------
(* C10 *)

\* C10: when columnsToCompare names a column that is not in the
\* correspondence, compare fails whatever the batches are, and before it
\* partitions the keys.
BadColumnsRejected ==
    (Done /\ BadColumns) =>
        /\ result.status # "ok"
        /\ ~partition.computed

----------------------------------------------------------------------------
(* C11 *)

\* an identifier column that names no column of source 1 or whose source 2
\* name (through the mapping) names no column of source 2
UnresolvedKey ==
    \E i \in 1..Len(id_columns) :
        \/ id_columns[i] \notin Range(source1_data.columns)
        \/ MappedIdColumn(id_columns[i]) \notin Range(source2_data.columns)

\* C11: when an identifier column cannot be resolved to a column of source 1
\* or (through the mapping) of source 2, compare fails for every input, the
\* batches with no rows included, and returns no result.
UnresolvedKeyRejected ==
    (pc # "ready" /\ UnresolvedKey) => result.status # "ok"

----------------------------------------------------------------------------
(* C12 *)

----------------------------------------------------------------------------
(* The column mapper: difflib.SequenceMatcher(None, a, b).ratio() *)

\* the length of the longest common run of a from i and of b from j
RunLength(a, i, b, j) ==
    LET n == IF Len(a) - i < Len(b) - j THEN Len(a) - i + 1 ELSE Len(b) - j + 1
    IN  CHOOSE k \in 0..n :
            /\ \A d \in 0..(k - 1) : a[i + d] = b[j + d]
            /\ k = n \/ a[i + k] # b[j + k]

\* find_longest_match: the longest matching block, the one starting earliest
\* in a and, among those, earliest in b
FindLongestMatch(a, b) ==
    LET starts == (1..Len(a)) \X (1..Len(b))
        size   == CHOOSE k \in 0..Len(a) :
                      /\ \A p \in starts : RunLength(a, p[1], b, p[2]) <= k
                      /\ k = 0 \/ \E p \in starts : RunLength(a, p[1], b, p[2]) = k
        best   == {p \in starts : RunLength(a, p[1], b, p[2]) = size}
        i      == CHOOSE x \in {p[1] : p \in best} : \A p \in best : x <= p[1]
        j      == CHOOSE y \in {p[2] : p \in {q \in best : q[1] = i}} :
                      \A p \in {q \in best : q[1] = i} : y <= p[2]
    IN  IF size = 0 THEN [i |-> 1, j |-> 1, size |-> 0]
        ELSE [i |-> i, j |-> j, size |-> size]

\* get_matching_blocks: the characters matched by the longest block and,
\* recursively, by the pieces to its left and to its right
RECURSIVE MatchingCharacters(_, _)
MatchingCharacters(a, b) ==
    IF a = <<>> \/ b = <<>> THEN 0
    ELSE LET m == FindLongestMatch(a, b)
         IN  IF m.size = 0 THEN 0
             ELSE m.size
                  + MatchingCharacters(SubSeq(a, 1, m.i - 1), SubSeq(b, 1, m.j - 1))
                  + MatchingCharacters(SubSeq(a, m.i + m.size, Len(a)),
                                       SubSeq(b, m.j + m.size, Len(b)))

\* a score is the fraction num / den
Score(num, den) == [num |-> num, den |-> den]

ScoreGreater(s, t) == s.num * t.den > t.num * s.den

\* ratio(): 2.0 * matches / length, and 1.0 for two empty texts
SequenceRatio(a, b) ==
    IF Len(a) + Len(b) = 0 THEN Score(1, 1)
    ELSE Score(2 * MatchingCharacters(a, b), Len(a) + Len(b))

\* the literal 0.6
SimilarityThreshold == Score(3, 5)

----------------------------------------------------------------------------
(* The column mapper: auto_map_columns *)

\* list.index: the first position of x in a list that holds it
FirstIndex(list, x) ==
    CHOOSE n \in 1..Len(list) : list[n] = x /\ \A m \in 1..(n - 1) : list[m] # x

\* [col.lower() for col in cols]
LowerAll(cols) == [n \in 1..Len(cols) |-> Lower(cols[n])]

\* first pass: every source 1 column whose lowercased name is among the
\* lowercased source 2 names is mapped to the first source 2 column of that name
ExactMatches ==
    LET s1_cols == LowerAll(source1_columns)
        s2_cols == LowerAll(source2_columns)
        hits == {idx1 \in 1..Len(s1_cols) : s1_cols[idx1] \in Range(s2_cols)}
    IN  [col \in {source1_columns[idx1] : idx1 \in hits} |->
            source2_columns[FirstIndex(s2_cols, Lower(col))]]

\* best_match = None
NoMatch == <<"<None>">>

\* the inner loop over a later-or-equal score: the last of the best wins
RECURSIVE BestUpToLastTie(_, _, _)
BestUpToLastTie(col1, used_s2, n) ==
    IF n = 0 THEN [best_match |-> NoMatch, best_score |-> Score(0, 1)]
    ELSE LET prev == BestUpToLastTie(col1, used_s2, n - 1)
             col2 == source2_columns[n]
             score == SequenceRatio(Lower(col1), Lower(col2))
         IN  IF col2 \in used_s2 THEN prev
             ELSE IF ~ScoreGreater(prev.best_score, score)
                     /\ ScoreGreater(score, SimilarityThreshold)
                  THEN [best_match |-> col2, best_score |-> score]
                  ELSE prev

\* the inner loop of the second pass after the first n source 2 columns:
\* skip the used ones, keep a score above best_score and above 0.6
RECURSIVE BestUpTo(_, _, _)
BestUpTo(col1, used_s2, n) ==
    IF n = 0 THEN [best_match |-> NoMatch, best_score |-> Score(0, 1)]
    ELSE LET prev == BestUpTo(col1, used_s2, n - 1)
             col2 == source2_columns[n]
             score == SequenceRatio(Lower(col1), Lower(col2))
         IN  IF col2 \in used_s2 THEN prev
             ELSE IF ScoreGreater(score, prev.best_score)
                     /\ ScoreGreater(score, SimilarityThreshold)
                  THEN [best_match |-> col2, best_score |-> score]
                  ELSE prev

\* unmapped_s1 = [col for col in source1_columns if col not in mappings]
UnmappedSource1(mappings) ==
    SelectSeq(source1_columns, LAMBDA col : col \notin DOMAIN mappings)

\* the second pass after the first n unmapped source 1 columns
RECURSIVE SimilarUpTo(_, _)
SimilarUpTo(exact, n) ==
    IF n = 0
    THEN [mappings |-> exact,
          used_s2 |-> {col \in Range(source2_columns) : col \in Range(exact)}]
    ELSE LET prev == SimilarUpTo(exact, n - 1)
             col1 == UnmappedSource1(exact)[n]
             best_match == BestUpTo(col1, prev.used_s2, Len(source2_columns)).best_match
         IN  IF best_match # NoMatch /\ best_match # <<>>
             THEN [mappings |-> [col \in DOMAIN prev.mappings \cup {col1} |->
                                    IF col = col1 THEN best_match ELSE prev.mappings[col]],
                   used_s2 |-> prev.used_s2 \cup {best_match}]
             ELSE prev

\* auto_map_columns(): the mapping as a function source 1 column -> source 2 column
AutoMap ==
    SimilarUpTo(ExactMatches, Len(UnmappedSource1(ExactMatches))).mappings

\* a value returned by a call
Returns(value) == [status |-> "ok", value |-> value]

\* mapper.auto_map_columns()
AutoMapColumns ==
    /\ call = NoCall
    /\ call' = [op |-> "auto_map_columns", result |-> Returns(AutoMap)]
    /\ UNCHANGED <<engine_vars, pc, partition, result, mapper_vars, handler_vars, cli_vars>>

----------------------------------------------------------------------------
(* The column mapper: inputs of auto_map_columns *)

\* columns per source in the inputs that vary the column names
MaxColumns == 2

\* names that agree up to case, that tie, and that score 0.6 exactly
MapperNames ==
    { <<"a", "b">>, <<"A", "B">>, <<"a", "b", "c">>, <<"a", "b", "d">>,
      <<"a", "b", "c", "d", "e">>, <<"a", "b", "c", "x", "y">> }

\* the lists of at most max distinct names
ColumnLists(names, max) ==
    {cols \in UNION {[1..n -> names] : n \in 0..max} :
        \A m, n \in DOMAIN cols : m # n => cols[m] # cols[n]}

\* the column names of the tests
Col_id == <<"i", "d">>

Col_name == <<"n", "a", "m", "e">>

Col_price == <<"p", "r", "i", "c", "e">>

Col_cost == <<"c", "o", "s", "t">>

Col_product_id == <<"p", "r", "o", "d", "u", "c", "t", "_", "i", "d">>

Col_product_name == <<"p", "r", "o", "d", "u", "c", "t", "_", "n", "a", "m", "e">>

Col_invalid_col == <<"i", "n", "v", "a", "l", "i", "d", "_", "c", "o", "l">>

\* test_similar_column_matching
SimilarSource1 == <<Col_id, Col_product_name, Col_price>>

SimilarSource2 == <<Col_product_id, Col_name, Col_cost>>

\* test_exact_column_matching
ExactSource == <<Col_id, Col_name, Col_price>>

\* no ComparisonEngine constructed
NoEngine ==
    /\ source1_data = [columns |-> <<>>, rows |-> <<>>]
    /\ source2_data = [columns |-> <<>>, rows |-> <<>>]
    /\ id_columns = <<>>
    /\ column_mapping = <<>>
    /\ config = [case_sensitive |-> TRUE, trim_strings |-> FALSE,
                 columns_to_compare |-> ColumnsNone]
    /\ EngineReady

\* ColumnMapper(source1_columns, source2_columns)
InitAutoMap ==
    /\ \/ /\ source1_columns \in ColumnLists(MapperNames, MaxColumns)
          /\ source2_columns \in ColumnLists(MapperNames, MaxColumns)
       \/ /\ source1_columns = SimilarSource1
          /\ source2_columns = SimilarSource2
       \/ /\ source1_columns = ExactSource
          /\ source2_columns = ExactSource
    /\ files = <<>>
    /\ NoEngine
    /\ NoHandler
    /\ call = NoCall
    /\ NoCli

NextAutoMap == AutoMapColumns

SpecAutoMap == InitAutoMap /\ [][NextAutoMap]_vars

----------------------------------------------------------------------------
(* Vocabulary of the properties of auto_map_columns *)

Mapped == call.op = "auto_map_columns"

Mapping == call.result.value

\* names equal up to case
SameName(a, b) == Lower(a) = Lower(b)

\* the source 1 columns that have a source 2 column of the same name
ExactColumns ==
    {a \in Range(source1_columns) : \E b \in Range(source2_columns) : SameName(a, b)}

Position(list, x) == CHOOSE n \in DOMAIN list : list[n] = x

\* the source 2 columns already taken when the second pass reaches a: the
\* images of the first pass and of the earlier columns of the second pass
Taken(a) ==
    {Mapping[x] : x \in {y \in DOMAIN Mapping :
        \/ y \in ExactColumns
        \/ Position(source1_columns, y) < Position(source1_columns, a)}}

SimilarityOf(a, b) == SequenceRatio(Lower(a), Lower(b))

\* the source 2 columns a may still be mapped to
Candidates(a) ==
    {b \in Range(source2_columns) \ Taken(a) :
        ScoreGreater(SimilarityOf(a, b), SimilarityThreshold)}

\* the candidate of highest score and, among those, first in source 2
BestCandidate(a) ==
    CHOOSE b \in Candidates(a) :
        \A c \in Candidates(a) \ {b} :
            \/ ScoreGreater(SimilarityOf(a, b), SimilarityOf(a, c))
            \/ /\ ~ScoreGreater(SimilarityOf(a, c), SimilarityOf(a, b))
               /\ Position(source2_columns, b) < Position(source2_columns, c)

----------------------------------------------------------------------------
(* C13 *)

\* C13: in the first pass every source 1 column whose name equals a source 2
\* name up to case is mapped to the first such source 2 column, and a source 2
\* column matched once is out of the pool: no source 2 column is the image of
\* two source 1 columns.
ExactPhaseInjective ==
    Mapped =>
        /\ \A a \in ExactColumns :
              /\ a \in DOMAIN Mapping
              /\ SameName(a, Mapping[a])
              /\ \A n \in 1..(Position(source2_columns, Mapping[a]) - 1) :
                    ~SameName(a, source2_columns[n])
        /\ \A a1, a2 \in DOMAIN Mapping : a1 # a2 => Mapping[a1] # Mapping[a2]

----------------------------------------------------------------------------
(* C14 *)

\* C14: in the second pass every source 1 column the first pass left unmapped
\* is mapped to the source 2 column, among those not yet used, of the highest
\* similarity up to case, and only if that similarity is strictly above 0.6;
\* of equal scores the earliest source 2 column wins; a column with no such
\* candidate is absent from the mapping.
SimilarityPhase ==
    Mapped =>
        \A a \in Range(source1_columns) \ ExactColumns :
            IF Candidates(a) = {} THEN a \notin DOMAIN Mapping
            ELSE a \in DOMAIN Mapping /\ Mapping[a] = BestCandidate(a)

\* two columns went through the second pass: the first had two candidates of
\* the same best score, and the second was mapped to a column that scores no
\* higher for it than the column the first one took
SimilarityPhaseWitness ==
    /\ Mapped
    /\ \E a1, a2 \in DOMAIN Mapping \ ExactColumns :
          /\ Position(source1_columns, a1) < Position(source1_columns, a2)
          /\ \E c \in Candidates(a1) \ {Mapping[a1]} :
                SimilarityOf(a1, c) = SimilarityOf(a1, Mapping[a1])
          /\ ~ScoreGreater(SimilarityOf(a2, Mapping[a2]), SimilarityOf(a2, Mapping[a1]))

----------------------------------------------------------------------------
(* C15 *)

\* C15: for the source 1 columns id, product_name, price and the source 2
\* columns product_id, name, cost the mapping is id -> product_id,
\* product_name -> name, price -> cost.
SimilarScenario ==
    (Mapped /\ source1_columns = SimilarSource1 /\ source2_columns = SimilarSource2) =>
        /\ DOMAIN Mapping = {Col_id, Col_product_name, Col_price}
        /\ Mapping[Col_id] = Col_product_id
        /\ Mapping[Col_product_name] = Col_name
        /\ Mapping[Col_price] = Col_cost

----------------------------------------------------------------------------
(* The column mapper: validate_mapping and load_mapping_config *)

\* None, as a returned value
PyNone == <<"<None>">>

\* raise ValueError(f"... column '{col}' not found in ..."): the error names col
RaisedAbout(kind, col) == [status |-> kind, column |-> col]

\* a dict argument is the sequence of its (key, value) items in insertion order
Keys(items) == [n \in 1..Len(items) |-> items[n][1]]

Values(items) == [n \in 1..Len(items) |-> items[n][2]]

\* the first element of a list that is not in a set; the list holds one
FirstOutside(list, S) ==
    list[CHOOSE n \in 1..Len(list) :
            list[n] \notin S /\ \A m \in 1..(n - 1) : list[m] \in S]

\* validate_mapping(mapping): the first unknown key raises, then the first
\* unknown value; None otherwise
ValidateMappingResult(mapping) ==
    IF \E n \in 1..Len(mapping) : Keys(mapping)[n] \notin Range(source1_columns)
    THEN RaisedAbout("ValueError", FirstOutside(Keys(mapping), Range(source1_columns)))
    ELSE IF \E n \in 1..Len(mapping) : Values(mapping)[n] \notin Range(source2_columns)
    THEN RaisedAbout("ValueError", FirstOutside(Values(mapping), Range(source2_columns)))
    ELSE Returns(PyNone)

\* the built-in exception classes an exception of this class is an instance of
Bases(kind) ==
    CASE kind = "FileNotFoundError" -> {"FileNotFoundError", "OSError", "Exception"}
      [] kind = "JSONDecodeError"   -> {"JSONDecodeError", "ValueError", "Exception"}
      [] kind = "ValueError"        -> {"ValueError", "Exception"}
      [] kind = "TypeError"         -> {"TypeError", "Exception"}
      [] kind = "KeyError"          -> {"KeyError", "LookupError", "Exception"}
      [] OTHER                      -> {}

\* required_keys
RequiredKeys == {"source1", "source2", "column_mapping"}

\* key in config: dict membership, list membership, TypeError for a number
ContainsRaises(parsed) == parsed.kind = "number"

Contains(parsed, key) ==
    CASE parsed.kind = "object" -> key \in parsed.keys
      [] parsed.kind = "array"  -> key \in parsed.items
      [] OTHER                  -> FALSE

\* load_mapping_config(config_path)
LoadMappingConfigResult(config_path) ==
    IF config_path \notin DOMAIN files THEN Raised("FileNotFoundError")
    ELSE LET config_ == files[config_path]
         IN  IF config_.kind = "malformed" THEN Raised("JSONDecodeError")
             ELSE IF ContainsRaises(config_) THEN Raised("TypeError")
             ELSE IF ~(\A key \in RequiredKeys : Contains(config_, key))
             THEN Raised("ValueError")
             ELSE Returns(config_)

\* entries of the mapping passed to validate_mapping
MaxMappingEntries == 2

\* mappings over known columns, an unknown one and columns of the other
\* source, keys distinct
MappingArguments ==
    LET items == {Col_id, Col_cost, Col_invalid_col}
                 \X {Col_product_id, Col_name, Col_invalid_col}
    IN  {m \in UNION {[1..n -> items] : n \in 0..MaxMappingEntries} :
            \A i, j \in DOMAIN m : i # j => m[i][1] # m[j][1]}

\* what a configuration file may hold
FileContents ==
    {[kind |-> "malformed"], [kind |-> "number"]}
    \cup {[kind |-> "object", keys |-> ks] : ks \in SUBSET (RequiredKeys \cup {"extra"})}
    \cup {[kind |-> "array", items |-> ks] : ks \in SUBSET RequiredKeys}

ConfigPaths == {"mapping.json", "missing.json"}

\* mapper.validate_mapping(mapping)
ValidateMapping ==
    /\ call = NoCall
    /\ \E mapping \in MappingArguments :
          call' = [op |-> "validate_mapping", mapping |-> mapping,
                   result |-> ValidateMappingResult(mapping)]
    /\ UNCHANGED <<engine_vars, pc, partition, result, mapper_vars, handler_vars, cli_vars>>

\* ColumnMapper.load_mapping_config(config_path)
LoadMappingConfig ==
    /\ call = NoCall
    /\ \E config_path \in ConfigPaths :
          call' = [op |-> "load_mapping_config", config_path |-> config_path,
                   result |-> LoadMappingConfigResult(config_path)]
    /\ UNCHANGED <<engine_vars, pc, partition, result, mapper_vars, handler_vars, cli_vars>>

\* the mapper of test_validate_mapping and a file system with at most one file
InitMapping ==
    /\ source1_columns = <<Col_id, Col_name, Col_price>>
    /\ source2_columns = <<Col_product_id, Col_product_name, Col_cost>>
    /\ \/ files = <<>>
       \/ \E content \in FileContents : files = [p \in {"mapping.json"} |-> content]
    /\ NoEngine
    /\ NoHandler
    /\ call = NoCall
    /\ NoCli

NextMapping == ValidateMapping \/ LoadMappingConfig

SpecMapping == InitMapping /\ [][NextMapping]_vars

----------------------------------------------------------------------------
(* C16 *)

Validated == call.op = "validate_mapping"

\* the keys of the mapping that are no source 1 column and the values that
\* are no source 2 column
OffendingKeys == {k \in Range(Keys(call.mapping)) : k \notin Range(source1_columns)}

OffendingValues == {v \in Range(Values(call.mapping)) : v \notin Range(source2_columns)}

\* the columns an error reports
Reported(outcome) == IF "column" \in DOMAIN outcome THEN {outcome.column} ELSE {}

\* C16: validate succeeds exactly when every key of the mapping is a source 1
\* column and every value a source 2 column; otherwise it fails with an error
\* that reports every offending key and every offending value.
ValidateExhaustive ==
    Validated =>
        IF OffendingKeys = {} /\ OffendingValues = {}
        THEN call.result.status = "ok"
        ELSE /\ call.result.status # "ok"
             /\ Reported(call.result) = OffendingKeys \cup OffendingValues

----------------------------------------------------------------------------
(* C17 *)

Loaded == call.op = "load_mapping_config"

\* the file exists, parses as a JSON object and has the three required keys
Loadable ==
    /\ call.config_path \in DOMAIN files
    /\ files[call.config_path].kind = "object"
    /\ RequiredKeys \subseteq files[call.config_path].keys

\* C17: load_mapping_config returns the parsed configuration exactly when the
\* file exists, parses as JSON and has source1, source2 and column_mapping;
\* a missing file, malformed JSON and a missing key all fail with one and the
\* same kind of error, the configuration error (ValueError in the code).
LoadSingleErrorKind ==
    Loaded =>
        IF Loadable THEN call.result = Returns(files[call.config_path])
        ELSE "ValueError" \in Bases(call.result.status)

----------------------------------------------------------------------------
(* The identifier handler: detect_id_columns *)

\* a pattern ^literal$ or, with any_prefix, ^.*literal$
Pattern(any_prefix, literal) == [any_prefix |-> any_prefix, literal |-> literal]

\* IDHandler.COMMON_ID_PATTERNS
COMMON_ID_PATTERNS ==
    << Pattern(FALSE, <<"i", "d">>),
       Pattern(TRUE, <<"_", "i", "d">>),
       Pattern(TRUE, <<"i", "d">>),
       Pattern(FALSE, <<"k", "e", "y">>),
       Pattern(TRUE, <<"_", "k", "e", "y">>) >>

\* $ matches at the end of the text and before a newline that ends it
AtEnd(rest, literal) == rest = literal \/ rest = literal \o <<"\n">>

\* re.match(pattern, column_name): .* takes any characters but a newline
ReMatch(pattern, column_name) ==
    IF pattern.any_prefix
    THEN \E k \in 0..Len(column_name) :
            /\ \A n \in 1..k : column_name[n] # "\n"
            /\ AtEnd(SubSeq(column_name, k + 1, Len(column_name)), pattern.literal)
    ELSE AtEnd(column_name, pattern.literal)

\* _matches_id_pattern(col.lower())
MatchesIdPattern(col) ==
    \E n \in DOMAIN COMMON_ID_PATTERNS : ReMatch(COMMON_ID_PATTERNS[n], Lower(col))

\* values = [str(row.get(col)) for row in self.data_sample]; len(set(values))
UniqueCount(col) ==
    Cardinality({Str(Get(data_sample[n], col)) : n \in DOMAIN data_sample})

\* _calculate_uniqueness_scores(): {} for an empty sample
UniquenessScores ==
    IF data_sample = <<>> THEN <<>>
    ELSE [col \in Range(columns) |-> Score(UniqueCount(col), Len(data_sample))]

\* the literal 0.95
UniquenessThreshold == Score(19, 20)

\* score >= 0.95 in place of score > 0.95
HighlyUniqueAtThreshold(score) == ~ScoreGreater(UniquenessThreshold, score)

\* score > 0.95
HighlyUnique(score) == ScoreGreater(score, UniquenessThreshold)

\* detect_id_columns(): list(candidates)
DetectIdColumnsResult ==
    LET by_name == {col \in Range(columns) : MatchesIdPattern(col)}
        uniqueness_scores == UniquenessScores
        by_score == {col \in DOMAIN uniqueness_scores :
                        HighlyUnique(uniqueness_scores[col])}
    IN  Returns(SetToSeq(by_name \cup by_score))

\* handler.detect_id_columns()
DetectIdColumns ==
    /\ call = NoCall
    /\ call' = [op |-> "detect_id_columns", result |-> DetectIdColumnsResult]
    /\ UNCHANGED <<engine_vars, pc, partition, result, mapper_vars, handler_vars, cli_vars>>

----------------------------------------------------------------------------
(* The identifier handler: validate_id_columns and find_duplicate_ids *)

\* raise ValueError(f"ID column '{col}' {message}")
RaisedSaying(kind, col, message) ==
    [status |-> kind, column |-> col, message |-> message]

\* not value: None and the empty text are false
Falsy(value) == value = Null \/ value = <<>>

\* _has_null_values(column)
HasNullValues(column) ==
    \E n \in DOMAIN data_sample : Falsy(Get(data_sample[n], column))

\* validate_id_columns(id_cols): raises at the first column that is not
\* found, else at the first column with a null; returns None otherwise
ValidateIdColumnsResult(id_cols) ==
    LET without_nulls == {col \in Range(id_cols) : ~HasNullValues(col)}
    IN  IF \E n \in 1..Len(id_cols) : id_cols[n] \notin Range(columns)
        THEN RaisedSaying("ValueError", FirstOutside(id_cols, Range(columns)),
                          "not found in data source")
        ELSE IF \E n \in 1..Len(id_cols) : HasNullValues(id_cols[n])
        THEN RaisedSaying("ValueError", FirstOutside(id_cols, without_nulls),
                          "contains null values")
        ELSE Returns(PyNone)

\* key = tuple(str(row.get(col)) for col in id_cols)
IdCombination(row, id_cols) ==
    [i \in 1..Len(id_cols) |-> Str(Get(row, id_cols[i]))]

\* id_combinations
IdCombinations(id_cols) ==
    [n \in 1..Len(data_sample) |-> IdCombination(data_sample[n], id_cols)]

\* Counter(id_combinations)[id_combo]
Count(id_combinations, id_combo) ==
    Cardinality({n \in DOMAIN id_combinations : id_combinations[n] = id_combo})

\* dict(zip(id_cols, id_combo)): a repeated name keeps its last value
ZipDict(id_cols, id_combo) ==
    [col \in Range(id_cols) |->
        id_combo[CHOOSE i \in DOMAIN id_cols :
                    id_cols[i] = col /\ \A j \in DOMAIN id_cols : id_cols[j] = col => j <= i]]

\* the duplicates reported for every count, also a count of one
FindDuplicateIdsAll(id_cols) ==
    LET id_combinations == IdCombinations(id_cols)
        firsts == SelectSeq([n \in DOMAIN id_combinations |-> n],
                    LAMBDA n : \A m \in 1..(n - 1) : id_combinations[m] # id_combinations[n])
    IN  Returns([k \in DOMAIN firsts |->
                    [id_values |-> ZipDict(id_cols, id_combinations[firsts[k]]),
                     count |-> Count(id_combinations, id_combinations[firsts[k]])]])

\* find_duplicate_ids(id_cols): the combinations counted more than once, in
\* the order of their first occurrence
FindDuplicateIdsResult(id_cols) ==
    LET id_combinations == IdCombinations(id_cols)
        firsts == SelectSeq([n \in DOMAIN id_combinations |-> n],
                    LAMBDA n : /\ \A m \in 1..(n - 1) : id_combinations[m] # id_combinations[n]
                               /\ Count(id_combinations, id_combinations[n]) > 1)
    IN  Returns([k \in DOMAIN firsts |->
                    [id_values |-> ZipDict(id_cols, id_combinations[firsts[k]]),
                     count |-> Count(id_combinations, id_combinations[firsts[k]])]])

----------------------------------------------------------------------------
(* The identifier handler: inputs *)

\* rows in the samples that vary the values
MaxSample == 2

\* identifier columns passed to validate_id_columns and find_duplicate_ids
MaxIdColumns == 2

Col_Id == <<"I", "d">>

Col_uid == <<"u", "i", "d">>

Col_key == <<"k", "e", "y">>

Col_a_key == <<"a", "_", "k", "e", "y">>

Col_akey == <<"a", "k", "e", "y">>

Col_n == <<"n">>

Col_customer_id == <<"c", "u", "s", "t", "o", "m", "e", "r", "_", "i", "d">>

Col_region == <<"r", "e", "g", "i", "o", "n">>

\* column lists: names the patterns accept and reject, and a repeated name
HandlerColumnLists ==
    { <<Col_Id, Col_n>>, <<Col_uid, Col_akey>>, <<Col_key, Col_a_key>>,
      <<Col_n, Col_n>>, <<Col_akey>>, <<>> }

\* values of a sampled record: two texts, None and the empty text
SampleValues == {<<"1">>, <<"2">>, Null, <<>>}

\* the samples of at most max rows over the columns
SamplesOf(cols, max) ==
    UNION {[1..n -> [Range(cols) -> SampleValues]] : n \in 0..max}

Digits == <<"0", "1", "2", "3", "4", "5", "6", "7", "8", "9">>

\* str(n) for 0 <= n < 100
Dec(n) ==
    IF n < 10 THEN <<Digits[n + 1]>>
    ELSE <<Digits[(n \div 10) + 1], Digits[(n % 10) + 1]>>

\* twenty rows: name all distinct, price with 19 distinct values, cost constant
UniquenessColumns == <<Col_name, Col_price, Col_cost>>

UniquenessSample ==
    [n \in 1..20 |->
        [col \in Range(UniquenessColumns) |->
            IF col = Col_name THEN Dec(n)
            ELSE IF col = Col_price THEN Dec(IF n = 1 THEN 2 ELSE n)
            ELSE <<"x">>]]

\* test_detect_id_columns
DetectColumns == <<Col_id, Col_name, Col_customer_id, Col_price>>

DetectRow(id, name, customer_id, price) ==
    [col \in Range(DetectColumns) |->
        IF col = Col_id THEN id
        ELSE IF col = Col_name THEN name
        ELSE IF col = Col_customer_id THEN customer_id
        ELSE price]

DetectSample ==
    << DetectRow(<<"1">>, <<"A">>, <<"C", "1">>, <<"1", "0">>),
       DetectRow(<<"2">>, <<"B">>, <<"C", "2">>, <<"1", "0">>) >>

\* test_find_duplicate_ids
DuplicateColumns == <<Col_id, Col_region>>

DuplicateRow(id, region) ==
    [col \in Range(DuplicateColumns) |-> IF col = Col_id THEN id ELSE region]

DuplicateSample ==
    << DuplicateRow(<<"1">>, <<"A">>), DuplicateRow(<<"1">>, <<"B">>),
       DuplicateRow(<<"2">>, <<"A">>) >>

\* id_columns arguments: columns of the handler and one it does not have
IdColumnArguments ==
    UNION {[1..n -> Range(columns) \cup {Col_invalid_col}] : n \in 0..MaxIdColumns}

\* IDHandler(columns, data_sample)
InitHandler ==
    /\ \/ /\ columns \in HandlerColumnLists
          /\ data_sample \in SamplesOf(columns, MaxSample)
       \/ /\ columns = UniquenessColumns
          /\ data_sample = UniquenessSample
       \/ /\ columns = DetectColumns
          /\ data_sample = DetectSample
       \/ /\ columns = DuplicateColumns
          /\ data_sample = DuplicateSample
    /\ NoEngine
    /\ NoMapper
    /\ call = NoCall
    /\ NoCli

\* handler.validate_id_columns(id_columns)
ValidateIdColumns ==
    /\ call = NoCall
    /\ \E id_cols \in IdColumnArguments :
          call' = [op |-> "validate_id_columns", id_columns |-> id_cols,
                   result |-> ValidateIdColumnsResult(id_cols)]
    /\ UNCHANGED <<engine_vars, pc, partition, result, mapper_vars, handler_vars, cli_vars>>

\* handler.find_duplicate_ids(id_columns)
FindDuplicateIds ==
    /\ call = NoCall
    /\ \E id_cols \in IdColumnArguments :
          call' = [op |-> "find_duplicate_ids", id_columns |-> id_cols,
                   result |-> FindDuplicateIdsResult(id_cols)]
    /\ UNCHANGED <<engine_vars, pc, partition, result, mapper_vars, handler_vars, cli_vars>>

NextHandler == DetectIdColumns \/ ValidateIdColumns \/ FindDuplicateIds

SpecHandler == InitHandler /\ [][NextHandler]_vars

----------------------------------------------------------------------------
(* C18 *)

Detected == call.op = "detect_id_columns"

EndsWith(s, suffix) ==
    /\ Len(s) >= Len(suffix)
    /\ SubSeq(s, Len(s) - Len(suffix) + 1, Len(s)) = suffix

\* the lowercased name is id, ends with id, is key, or ends with _key
NamedLikeId(col) ==
    LET name == Lower(col)
    IN  \/ name = <<"i", "d">>
        \/ EndsWith(name, <<"i", "d">>)
        \/ name = <<"k", "e", "y">>
        \/ EndsWith(name, <<"_", "k", "e", "y">>)

\* the distinct texts of a column in the sample
TextsOf(col) == {Str(Get(data_sample[n], col)) : n \in DOMAIN data_sample}

\* distinct texts / sample size > 0.95, on a sample that is not empty
MostlyDistinct(col) ==
    /\ data_sample # <<>>
    /\ 100 * Cardinality(TextsOf(col)) > 95 * Len(data_sample)

\* C18: detect returns exactly the columns whose lowercased name is id, ends
\* with id, is key or ends with _key, together with the columns whose ratio
\* of distinct texts to sample size is strictly above 0.95; it returns no
\* other column and none twice, and on an empty sample the names alone decide.
DetectExact ==
    Detected =>
        /\ call.result.status = "ok"
        /\ Range(call.result.value) =
              {col \in Range(columns) : NamedLikeId(col) \/ MostlyDistinct(col)}
        /\ \A m, n \in DOMAIN call.result.value :
              m # n => call.result.value[m] # call.result.value[n]
        /\ data_sample = <<>> =>
              Range(call.result.value) = {col \in Range(columns) : NamedLikeId(col)}

\* the sample of the tests: id and customer_id by name, name by its distinct
\* values, price by neither
DetectExactWitness ==
    /\ Detected
    /\ columns = DetectColumns
    /\ {Col_id, Col_customer_id, Col_name} \subseteq Range(call.result.value)
    /\ Col_price \notin Range(call.result.value)

----------------------------------------------------------------------------
(* C19 *)

ValidatedIds == call.op = "validate_id_columns"

\* the errors the validation is to collect: not found (fatal) for an absent
\* column, null value (warning) for a column with a null in some record
ExpectedErrors ==
    {[kind |-> "fatal", column |-> col] :
        col \in {c \in Range(call.id_columns) : c \notin Range(columns)}}
    \cup
    {[kind |-> "warning", column |-> col] :
        col \in {c \in Range(call.id_columns) :
                    /\ c \in Range(columns)
                    /\ \E n \in DOMAIN data_sample : Get(data_sample[n], c) = Null}}

\* C19: validate returns a list with one fatal not-found error for each
\* identifier column that is absent and one null-value warning for each
\* identifier column with a null in the sample; the list is empty when all
\* columns exist without nulls, and no violation hides another.
ValidateCollectsAll ==
    ValidatedIds =>
        /\ call.result.status = "ok"
        /\ call.result.value # PyNone
        /\ Range(call.result.value) = ExpectedErrors
        /\ Len(call.result.value) = Cardinality(ExpectedErrors)

----------------------------------------------------------------------------
(* C20 *)

DuplicatesFound == call.op = "find_duplicate_ids"

\* the composite key of the n-th sampled record: the texts of its identifiers
KeyOf(n) ==
    [i \in 1..Len(call.id_columns) |-> Str(Get(data_sample[n], call.id_columns[i]))]

Occurrences(k) == Cardinality({n \in DOMAIN data_sample : KeyOf(n) = k})

\* the key as a map from column name to value
KeyMap(k) ==
    [col \in Range(call.id_columns) |->
        k[CHOOSE i \in DOMAIN call.id_columns : call.id_columns[i] = col]]

EntriesFor(k) ==
    {n \in DOMAIN call.result.value : call.result.value[n].id_values = KeyMap(k)}

\* C20: find_duplicate_ids returns exactly one entry for each composite key
\* that occurs more than once in the sample, with its number of occurrences
\* (at least 2) as count and the key as a map from column name to value; a
\* key that occurs once has no entry, so unique keys give the empty list.
DuplicatesExact ==
    DuplicatesFound =>
        /\ call.result.status = "ok"
        /\ \A n \in DOMAIN data_sample :
              LET k == KeyOf(n)
              IN  IF Occurrences(k) > 1
                  THEN /\ Cardinality(EntriesFor(k)) = 1
                       /\ \A e \in EntriesFor(k) :
                             /\ call.result.value[e].count = Occurrences(k)
                             /\ call.result.value[e].count >= 2
                  ELSE EntriesFor(k) = {}
        /\ \A e \in DOMAIN call.result.value :
              \E n \in DOMAIN data_sample :
                  call.result.value[e].id_values = KeyMap(KeyOf(n))
        /\ (\A m, n \in DOMAIN data_sample : m # n => KeyOf(m) # KeyOf(n)) =>
              call.result.value = <<>>

\* the sample of the tests: id 1 twice, id 2 once, one entry {id: 1} of count 2
DuplicatesExactWitness ==
    /\ DuplicatesFound
    /\ data_sample = DuplicateSample
    /\ call.id_columns = <<Col_id>>
    /\ Len(call.result.value) = 1
    /\ call.result.value[1].count = 2
    /\ call.result.value[1].id_values[Col_id] = <<"1">>

----------------------------------------------------------------------------
(* The data source: detect_file_format *)

\* Path(file_path).suffix: the name from its last dot on, if that dot is
\* neither the first nor the last character of the name
Suffix(file_path) ==
    LET dots == {i \in 1..Len(file_path) : file_path[i] = "."}
        last == CHOOSE i \in dots : \A j \in dots : j <= i
    IN  IF dots = {} THEN <<>>
        ELSE IF 1 < last /\ last < Len(file_path)
             THEN SubSeq(file_path, last, Len(file_path))
             ELSE <<>>

\* s in t for two texts: s occurs in t
InText(s, t) ==
    \E i \in 0..(Len(t) - Len(s)) : SubSeq(t, i + 1, i + Len(s)) = s

Quote == "\""

DigitChars == {"0", "1", "2", "3", "4", "5", "6", "7", "8", "9"}

\* an integer without sign
IsJsonNumber(s) ==
    /\ s # <<>>
    /\ \A i \in 1..Len(s) : s[i] \in DigitChars
    /\ Len(s) = 1 \/ s[1] # "0"

\* a string without escapes
IsJsonString(s) ==
    /\ Len(s) >= 2
    /\ s[1] = Quote
    /\ s[Len(s)] = Quote
    /\ \A i \in 2..(Len(s) - 1) : s[i] \notin {Quote, "\\"}

IsJsonLiteral(s) ==
    s \in {<<"t", "r", "u", "e">>, <<"f", "a", "l", "s", "e">>, <<"n", "u", "l", "l">>}

\* json.loads(s) succeeds: s is a number, a string, a literal, an array of
\* values or an object of string : value members, with whitespace around
\* the tokens
RECURSIVE IsJsonValue(_)
RECURSIVE IsJsonElements(_)
RECURSIVE IsJsonMembers(_)
IsJsonMember(s) ==
    \E k \in 1..Len(s) :
        /\ s[k] = ":"
        /\ IsJsonString(Strip(SubSeq(s, 1, k - 1)))
        /\ IsJsonValue(SubSeq(s, k + 1, Len(s)))

IsJsonMembers(s) ==
    \/ IsJsonMember(s)
    \/ \E k \in 1..Len(s) :
          /\ s[k] = ","
          /\ IsJsonMember(SubSeq(s, 1, k - 1))
          /\ IsJsonMembers(SubSeq(s, k + 1, Len(s)))

IsJsonElements(s) ==
    \/ IsJsonValue(s)
    \/ \E k \in 1..Len(s) :
          /\ s[k] = ","
          /\ IsJsonValue(SubSeq(s, 1, k - 1))
          /\ IsJsonElements(SubSeq(s, k + 1, Len(s)))

IsJsonValue(s) ==
    LET t == Strip(s)
        inner == SubSeq(t, 2, Len(t) - 1)
    IN  \/ IsJsonNumber(t)
        \/ IsJsonString(t)
        \/ IsJsonLiteral(t)
        \/ /\ Len(t) >= 2 /\ t[1] = "[" /\ t[Len(t)] = "]"
           /\ Strip(inner) = <<>> \/ IsJsonElements(inner)
        \/ /\ Len(t) >= 2 /\ t[1] = "{" /\ t[Len(t)] = "}"
           /\ Strip(inner) = <<>> \/ IsJsonMembers(inner)

\* path.suffix.lower() in ('.csv'): ('.csv') is the text '.csv', so this is
\* true of every suffix that occurs in it, the empty suffix included
ExtensionIsCsv(suffix) == InText(suffix, <<".", "c", "s", "v">>)

\* path.suffix.lower() in ('.jsonl', '.ndjson')
ExtensionIsJsonl(suffix) ==
    suffix \in {<<".", "j", "s", "o", "n", "l">>, <<".", "n", "d", "j", "s", "o", "n">>}

\* detect_file_format(file_path)
DetectFileFormatResult(file_path) ==
    IF file_path \notin DOMAIN files THEN Raised("FileNotFoundError")
    ELSE LET suffix == Lower(Suffix(file_path))
             first_line == Strip(files[file_path].first_line)
         IN  IF ExtensionIsCsv(suffix) THEN Returns("csv")
             ELSE IF ExtensionIsJsonl(suffix) THEN Returns("jsonl")
             ELSE IF IsJsonValue(first_line) THEN Returns("jsonl")
             ELSE IF InText(<<",">>, first_line) THEN Returns("csv")
             ELSE Raised("ValueError")

----------------------------------------------------------------------------
(* The data source: inputs of detect_file_format *)

\* file names: the known extensions in either case, other extensions, none
FormatPaths ==
    { <<"a", ".", "c", "s", "v">>, <<"a", ".", "C", "S", "V">>,
      <<"a", ".", "j", "s", "o", "n", "l">>, <<"a", ".", "n", "d", "j", "s", "o", "n">>,
      <<"a", ".", "t", "x", "t">>, <<"a", ".", "j", "s", "o", "n">>,
      <<"a", ".", "c">>, <<"d", "a", "t", "a">>, <<".", "c", "s", "v">> }

\* first lines: JSON without and with a comma, delimited text, neither, empty
FirstLines ==
    { <<"{", "\"", "a", "\"", ":", " ", "1", "}">>, <<"[", "1", ",", "2", "]">>,
      <<"1">>, <<"a", ",", "b", ",", "c">>, <<"a", "b", "c">>, <<>>,
      <<"a", ",", "b", "\n">> }

\* a file system with at most one data file
InitFormat ==
    /\ \/ files = <<>>
       \/ \E file_path \in FormatPaths, first_line \in FirstLines :
             files = [p \in {file_path} |-> [first_line |-> first_line]]
    /\ source1_columns = <<>>
    /\ source2_columns = <<>>
    /\ NoEngine
    /\ NoHandler
    /\ call = NoCall
    /\ NoCli

\* detect_file_format(file_path)
DetectFileFormat ==
    /\ call = NoCall
    /\ \E file_path \in FormatPaths :
          call' = [op |-> "detect_file_format", file_path |-> file_path,
                   result |-> DetectFileFormatResult(file_path)]
    /\ UNCHANGED <<engine_vars, pc, partition, result, mapper_vars, handler_vars, cli_vars>>

NextFormat == DetectFileFormat

SpecFormat == InitFormat /\ [][NextFormat]_vars

----------------------------------------------------------------------------
(* C24 *)

FormatDetected == call.op = "detect_file_format" /\ call.file_path \in DOMAIN files

\* the extension of the file, in lower case
ExtensionOf(file_path) == Lower(Suffix(file_path))

\* what sniffing the first line gives: JSON, else a comma, else nothing
Sniffed(file_path) ==
    LET line == Strip(files[file_path].first_line)
    IN  IF IsJsonValue(line) THEN Returns("jsonl")
        ELSE IF \E i \in 1..Len(line) : line[i] = "," THEN Returns("csv")
        ELSE Raised("ValueError")

\* C24: a file with the extension .csv is CSV, one with .jsonl or .ndjson is
\* JSONL; for every other name, another extension or none, the first line
\* decides: JSON gives JSONL, else a comma gives CSV, else detection fails.
FormatByExtensionThenContent ==
    FormatDetected =>
        call.result =
            IF ExtensionOf(call.file_path) = <<".", "c", "s", "v">> THEN Returns("csv")
            ELSE IF ExtensionOf(call.file_path) \in
                        {<<".", "j", "s", "o", "n", "l">>, <<".", "n", "d", "j", "s", "o", "n">>}
            THEN Returns("jsonl")
            ELSE Sniffed(call.file_path)

----------------------------------------------------------------------------
(* C25 *)

\* C25: the index of a batch holds, for every composite key of the batch,
\* exactly the record that comes last in batch order with that key; earlier
\* records of the key are dropped without error, whatever the other batch
\* holds, and the rows compare returns for a key are those last records.
IndexLastWins ==
    (pc # "ready" /\ result.status = "ok") =>
        /\ DOMAIN CreateIndex(source1_data, FALSE) = Keys1
        /\ DOMAIN CreateIndex(source2_data, TRUE) = Keys2
        /\ \A k \in Keys1 : CreateIndex(source1_data, FALSE)[k] = Last1(k)
        /\ \A k \in Keys2 : CreateIndex(source2_data, TRUE)[k] = Last2(k)
        /\ \A n \in DOMAIN result.unique_to_source1 :
              result.unique_to_source1[n] =
                  Last1(RowKey(result.unique_to_source1[n], FALSE))
        /\ \A n \in DOMAIN result.unique_to_source2 :
              result.unique_to_source2[n] =
                  Last2(RowKey(result.unique_to_source2[n], TRUE))

\* source 1 holds two different records of one key that source 2, not empty,
\* does not have, and compare returned
IndexLastWinsWitness ==
    /\ pc # "ready"
    /\ result.status = "ok"
    /\ Rows2 # <<>>
    /\ \E m, n \in DOMAIN Rows1 :
          /\ m < n
          /\ Rows1[m] # Rows1[n]
          /\ RowKey(Rows1[m], FALSE) = RowKey(Rows1[n], FALSE)
          /\ RowKey(Rows1[n], FALSE) \in partition.unique_to_source1

----------------------------------------------------------------------------
(* The engine on composite keys whose texts run into each other *)

\* rows per batch in the inputs that vary composite keys
MaxJoinRows == 2

\* ("a", "bc") and ("ab", "c") spell the same text when joined
JoinRecords ==
    [id : {<<"a">>, <<"a", "b">>}, name : {<<"b", "c">>, <<"c">>}, value : {<<"x">>}]

\* source 2 names the column "name" as "label"
LabelRenaming == [c \in Range(Columns) |-> IF c = "name" THEN "label" ELSE c]

\* composite and single keys, in the correspondence or not, renamed or not
JoinSetups ==
    { Setup(<<"id", "name">>, Identity({"name", "value"}), ColumnsNone, Identity(Range(Columns))),
      Setup(<<"id", "name">>, LabelRenaming, ColumnsNone, LabelRenaming),
      Setup(<<"id", "name">>, KeyRenaming, ColumnsNone, KeyRenaming),
      Setup(<<"name", "id">>, Identity({"value"}), ColumnsNone, Identity(Range(Columns))),
      Setup(<<"id">>, KeyRenaming, ColumnsNone, KeyRenaming) }

InitJoin ==
    /\ InitFrom(JoinRecords, MaxJoinRows, JoinSetups)
    /\ EngineReady
    /\ NoMapper
    /\ NoHandler
    /\ call = NoCall
    /\ NoCli

NextJoin == DoCompare

SpecJoin == InitJoin /\ [][NextJoin]_vars

(* C26 *)

\* the source 2 column that holds key column k
KeyColumn2(k) == IF k \in DOMAIN column_mapping THEN column_mapping[k] ELSE k

\* a record of source 1 and a record of source 2 agree, key column by key
\* column, on the text of the value
Joins(r1, r2) ==
    \A i \in DOMAIN id_columns :
        Str(r1[id_columns[i]]) = Str(r2[KeyColumn2(id_columns[i])])

\* two records of source 1 agree on every key column
SameKey1(a, b) ==
    \A i \in DOMAIN id_columns : Str(a[id_columns[i]]) = Str(b[id_columns[i]])

\* two records of source 2 agree on every key column
SameKey2(a, b) ==
    \A i \in DOMAIN id_columns :
        Str(a[KeyColumn2(id_columns[i])]) = Str(b[KeyColumn2(id_columns[i])])

\* the records of source 1 with a partner, one for each key
Joined1 ==
    {n \in DOMAIN Rows1 :
        /\ \E m \in DOMAIN Rows2 : Joins(Rows1[n], Rows2[m])
        /\ \A j \in DOMAIN Rows1 : SameKey1(Rows1[j], Rows1[n]) => j <= n}

\* C26: a record of source 1 and a record of source 2 join exactly when, for
\* every key column in order, the texts of their values in the corresponding
\* columns are equal: a record is reported as unique to its source exactly
\* when no record of the other source agrees with it column by column, and
\* there is one common key for each joined key of source 1.
KeysJoinByColumn ==
    (pc # "ready" /\ result.status = "ok") =>
        /\ \A n \in DOMAIN Rows1 :
              (\E m \in DOMAIN Rows2 : Joins(Rows1[n], Rows2[m]))
                  <=> ~\E u \in DOMAIN result.unique_to_source1 :
                          SameKey1(result.unique_to_source1[u], Rows1[n])
        /\ \A m \in DOMAIN Rows2 :
              (\E n \in DOMAIN Rows1 : Joins(Rows1[n], Rows2[m]))
                  <=> ~\E u \in DOMAIN result.unique_to_source2 :
                          SameKey2(result.unique_to_source2[u], Rows2[m])
        /\ Cardinality(partition.common_ids) = Cardinality(Joined1)

\* source 1 holds ("a", "bc"), source 2 holds ("ab", "c") under a composite
\* key read through the correspondence, and neither joins
KeysJoinByColumnWitness ==
    /\ pc # "ready"
    /\ result.status = "ok"
    /\ id_columns = <<"id", "name">>
    /\ column_mapping = LabelRenaming
    /\ \E n \in DOMAIN Rows1, m \in DOMAIN Rows2 :
          /\ Rows1[n].id = <<"a">> /\ Rows1[n].name = <<"b", "c">>
          /\ Rows2[m].id = <<"a", "b">> /\ Rows2[m].label = <<"c">>
    /\ partition.common_ids = {}
    /\ Len(result.unique_to_source1) = 1
    /\ Len(result.unique_to_source2) = 1

----------------------------------------------------------------------------
(* The engine on common keys whose columns differ in some rows only *)

\* rows per batch in the inputs that vary the differences per column
MaxAgreeRows == 2

\* source 1: two identifiers, a name that differs by case and spaces, or null
AgreeRecords1 ==
    [id : {<<"1">>, <<"2">>}, name : {<<" ", "A">>, Null}, value : {<<"x">>}]

\* source 2: the same identifiers, a plain or a null name
AgreeRecords2 ==
    [id : {<<"1">>, <<"2">>}, name : {<<"a">>, Null}, value : {<<"x">>}]

\* every column compared, by default or by name, or one of them only
AgreeSetups ==
    { Setup(<<"id">>, Identity({"name", "value"}), ColumnsNone, Identity(Range(Columns))),
      Setup(<<"id">>, Identity({"name", "value"}), <<>>, Identity(Range(Columns))),
      Setup(<<"id">>, Identity({"name", "value"}), <<"value", "name">>, Identity(Range(Columns))),
      Setup(<<"id">>, Identity({"name", "value"}), <<"value">>, Identity(Range(Columns))) }

InitAgree ==
    /\ InitWith(BatchesOf(AgreeRecords1, MaxAgreeRows),
                BatchesOf(AgreeRecords2, MaxAgreeRows), AgreeSetups)
    /\ EngineReady
    /\ NoMapper
    /\ NoHandler
    /\ call = NoCall
    /\ NoCli

NextAgree == DoCompare

SpecAgree == InitAgree /\ [][NextAgree]_vars

(* C28 *)

\* the common keys on which a column differs by the equality rule
DifferingKeys(col) == {k \in Common : Differs(k, col)}

\* C28: when the columns compared are those of the correspondence, the row
\* decision and the column statistics classify every common key and column
\* alike: no entry in differing exactly when every ratio is 1, and for each
\* column the keys that do not match number the common keys on which the
\* column differs.
StatsAgreeWithDifferences ==
    (pc # "ready" /\ result.status = "ok"
        /\ ComparedColumns = DOMAIN column_mapping) =>
        /\ \A k \in Common, col \in ComparedColumns :
              ColumnDiffers(Last1(k), Last2(k), col)
                  <=> ~ColumnMatches(Last1(k), Last2(k), col, column_mapping[col])
        /\ Len(result.differences) = 0
              <=> \A col \in DOMAIN result.column_stats :
                     Ratio(col).matches = Ratio(col).total
        /\ Common # {} =>
              \A col \in ComparedColumns :
                  /\ Ratio(col).total = Cardinality(Common)
                  /\ Ratio(col).total - Ratio(col).matches
                        = Cardinality(DifferingKeys(col))

\* two common keys, trimming on, the name differing on one of them only
\* and matching on the other once trimmed and folded, the value on none
StatsAgreeWithDifferencesWitness ==
    /\ pc # "ready"
    /\ result.status = "ok"
    /\ ComparedColumns = DOMAIN column_mapping
    /\ config.trim_strings
    /\ ~config.case_sensitive
    /\ Cardinality(Common) = 2
    /\ Len(result.differences) = 1
    /\ Ratio("name").matches = 1
    /\ Ratio("value").matches = 2
    /\ \E k \in Common : Side1(k, "name") = <<" ", "A">> /\ Side2(k, "name") = <<"a">>

----------------------------------------------------------------------------
(* C30 *)

\* C30: validation reports a null-value violation for a key column only if
\* the value of some sampled record in that column is absent or null; a
\* present value, the empty text included, gives no such violation.
NullViolationOnlyForNull ==
    (ValidatedIds /\ call.result.status = "ValueError"
        /\ call.result.message = "contains null values") =>
        \E n \in DOMAIN data_sample :
            Get(data_sample[n], call.result.column) = Null

----------------------------------------------------------------------------
(* The command line: main() *)

\* str.split(sep) for a separator of one character
Split(text, sep) ==
    LET cuts == {i \in 1..Len(text) : text[i] = sep}
        cut(j) == IF j = 0 THEN 0
                  ELSE IF j > Cardinality(cuts) THEN Len(text) + 1
                  ELSE CHOOSE i \in cuts : Cardinality({c \in cuts : c <= i}) = j
    IN  [j \in 1..(Cardinality(cuts) + 1) |->
            SubSeq(text, cut(j - 1) + 1, cut(j) - 1)]

\* the header line of a delimited file with these columns
HeaderLine(cols, sep) ==
    LET line[i \in 0..Len(cols)] ==
            IF i = 0 THEN <<>>
            ELSE IF i = 1 THEN cols[1]
            ELSE line[i - 1] \o <<sep>> \o cols[i]
    IN  line[Len(cols)]

\* CSVDataSource.columns: next(csv.reader(f, delimiter))
SourceColumns(file_path, delimiter) == Split(files[file_path].first_line, delimiter)

\* list(source): the rows csv.DictReader yields
SourceRows(file_path) == files[file_path].rows

\* pd.DataFrame(sample): no columns for an empty list
DataFrame(sample, cols) ==
    [columns |-> IF sample = <<>> THEN <<>> ELSE cols, rows |-> sample]

\* the dict a JSON object of distinct keys parses to
Dict(items) ==
    [k \in Range(Keys(items)) |->
        Values(items)[CHOOSE n \in DOMAIN items : items[n][1] = k]]

\* the class the command line imports for a fatal validation error
FatalIDValidationError == "FatalIDValidationError"

\* if x: None and the empty text are false
CliGiven(x) == x # PyNone /\ x # <<>>

----------------------------------------------------------------------------
(* The command line: inputs *)

\* rows per source file in the runs of the command line
MaxCliRows == 2

PathA == <<"a", ".", "c", "s", "v">>

PathB == <<"b", ".", "c", "s", "v">>

Path_good == <<"g", "o", "o", "d", ".", "j", "s", "o", "n">>

Path_broken == <<"b", "r", "o", "k", "e", "n", ".", "j", "s", "o", "n">>

Path_missing == <<"m", "i", "s", "s", "i", "n", "g", ".", "j", "s", "o", "n">>

Path_out == <<"o", "u", "t", ".", "c", "s", "v">>

\* a record of a file with two columns
CliRecord(header, first, second) ==
    [c \in Range(header) |-> IF c = header[1] THEN first ELSE second]

\* source 1: a repeated first value, an empty one, two second values
CliRecords1(header) ==
    { CliRecord(header, <<"1">>, <<"x">>), CliRecord(header, <<"1">>, <<"y">>),
      CliRecord(header, <<>>, <<"x">>) }

\* source 2: two first values
CliRecords2(header) ==
    { CliRecord(header, <<"1">>, <<"x">>), CliRecord(header, <<"2">>, <<"x">>) }

\* with and without a column named like an identifier
CliHeaders1 == { <<Col_id, Col_name>>, <<Col_region, Col_name>> }

\* the identifier under the same name and under another
CliHeaders2 == { <<Col_id, Col_name>>, <<Col_key, Col_name>> }

\* a delimited file
CsvFile(header, rows) == [first_line |-> HeaderLine(header, ","), rows |-> rows]

\* mapping.json of the documentation: id -> id, name -> name
GoodMapping ==
    [kind |-> "object", keys |-> RequiredKeys,
     column_mapping |-> << <<Col_id, Col_id>>, <<Col_name, Col_name>> >>]

\* parse_args() with no option given
DefaultArgs ==
    [source1 |-> PathA, source2 |-> PathB, mapping |-> PyNone,
     id_columns |-> PyNone, compare_columns |-> PyNone, delimiter |-> ",",
     case_sensitive |-> FALSE, no_trim |-> FALSE,
     output_format |-> "console", output_file |-> PyNone, no_diff |-> FALSE]

\* the command lines: each option alone, and a mapping with identifiers
CliArguments ==
    { DefaultArgs,
      [DefaultArgs EXCEPT !.id_columns = Col_id],
      [DefaultArgs EXCEPT !.id_columns = <<"g", "h", "o", "s", "t">>],
      [DefaultArgs EXCEPT !.id_columns = <<"i", "d", ",", "n", "a", "m", "e">>],
      [DefaultArgs EXCEPT !.mapping = Path_good],
      [DefaultArgs EXCEPT !.mapping = Path_broken],
      [DefaultArgs EXCEPT !.mapping = Path_missing],
      [DefaultArgs EXCEPT !.mapping = Path_good, !.id_columns = Col_id],
      [DefaultArgs EXCEPT !.compare_columns = <<"g", "h", "o", "s", "t">>],
      [DefaultArgs EXCEPT !.output_format = "csv", !.case_sensitive = TRUE,
                          !.no_trim = TRUE],
      [DefaultArgs EXCEPT !.output_format = "csv", !.output_file = Path_out] }

\* the files of a run: source 1, source 2 unless missing, two mapping files
CliFiles(file1, file2, with2) ==
    [p \in {PathA, Path_good, Path_broken} \cup (IF with2 THEN {PathB} ELSE {}) |->
        IF p = PathA THEN file1
        ELSE IF p = PathB THEN file2
        ELSE IF p = Path_good THEN GoodMapping
        ELSE [kind |-> "malformed"]]

\* the process at the start of main()
InitCli ==
    /\ args \in CliArguments
    /\ \E header1 \in CliHeaders1, header2 \in CliHeaders2, with2 \in BOOLEAN :
       \E rows1 \in BatchesOf(CliRecords1(header1), MaxCliRows),
          rows2 \in BatchesOf(CliRecords2(header2), MaxCliRows) :
          /\ with2 \/ (header2 = <<Col_id, Col_name>> /\ rows2 = <<>>)
          /\ files = CliFiles(CsvFile(header1, rows1), CsvFile(header2, rows2), with2)
    /\ pc = "main"
    /\ exit_code = 0
    /\ stderr = <<>>
    /\ stdout = <<>>
    /\ source1_data = [columns |-> <<>>, rows |-> <<>>]
    /\ source2_data = [columns |-> <<>>, rows |-> <<>>]
    /\ id_columns = <<>>
    /\ column_mapping = <<>>
    /\ config = [case_sensitive |-> TRUE, trim_strings |-> FALSE,
                 columns_to_compare |-> ColumnsNone]
    /\ partition = NoPartition
    /\ result = [status |-> "none"]
    /\ source1_columns = <<>>
    /\ source2_columns = <<>>
    /\ NoHandler
    /\ call = NoCall

----------------------------------------------------------------------------
(* The command line: the steps of main() *)

\* except Exception as e: print(f"Error: {e}", file=sys.stderr); sys.exit(1)
ExitWithError(about) ==
    /\ stderr' = Append(stderr, [level |-> "Error", about |-> about])
    /\ exit_code' = 1
    /\ pc' = "exit"

\* lines 38-39: create_data_source for each path; the runs read delimited files
CreateDataSources ==
    /\ pc = "main"
    /\ LET format1 == DetectFileFormatResult(args.source1)
           format2 == DetectFileFormatResult(args.source2)
       IN  IF format1.status # "ok" THEN ExitWithError(format1.status)
           ELSE IF format2.status # "ok" THEN ExitWithError(format2.status)
           ELSE pc' = "sources" /\ UNCHANGED <<exit_code, stderr>>
    /\ UNCHANGED <<engine_vars, partition, result, mapper_vars, handler_vars,
                   call, args, stdout>>

\* line 42: mapper = ColumnMapper(source1.columns, source2.columns)
CreateMapper ==
    /\ pc = "sources"
    /\ pc' = "mapper"
    /\ source1_columns' = SourceColumns(args.source1, args.delimiter)
    /\ source2_columns' = SourceColumns(args.source2, args.delimiter)
    /\ UNCHANGED <<engine_vars, partition, result, files, handler_vars, call, cli_vars>>

\* lines 43-48: the mapping of the file, validated, or the automatic one
HandleColumnMapping ==
    /\ pc = "mapper"
    /\ IF CliGiven(args.mapping)
       THEN LET loaded == LoadMappingConfigResult(args.mapping)
            IN  IF loaded.status # "ok"
                THEN /\ ExitWithError(loaded.status)
                     /\ call' = [op |-> "load_mapping_config",
                                 config_path |-> args.mapping, result |-> loaded]
                     /\ UNCHANGED column_mapping
                ELSE LET mapping == loaded.value.column_mapping
                         validated == ValidateMappingResult(mapping)
                     IN  /\ call' = [op |-> "validate_mapping", mapping |-> mapping,
                                     result |-> validated]
                         /\ IF validated.status # "ok"
                            THEN /\ ExitWithError(validated.status)
                                 /\ UNCHANGED column_mapping
                            ELSE /\ column_mapping' = Dict(mapping)
                                 /\ pc' = "mapped"
                                 /\ UNCHANGED <<exit_code, stderr>>
       ELSE /\ call' = [op |-> "auto_map_columns", result |-> Returns(AutoMap)]
            /\ column_mapping' = AutoMap
            /\ pc' = "mapped"
            /\ UNCHANGED <<exit_code, stderr>>
    /\ UNCHANGED <<source1_data, source2_data, id_columns, config, partition, result,
                   mapper_vars, handler_vars, args, stdout>>

\* lines 51-55: sample1 = list(source1); IDHandler(source1.columns, sample1)
CreateHandler ==
    /\ pc = "mapped"
    /\ pc' = "handler"
    /\ columns' = source1_columns
    /\ data_sample' = SourceRows(args.source1)
    /\ UNCHANGED <<engine_vars, partition, result, mapper_vars, call, cli_vars>>

\* lines 61-68: print every error, exit when one is fatal
ReportValidationErrors(errors) ==
    /\ stderr' = stderr \o [n \in DOMAIN errors |->
                               [level |-> "Error", about |-> errors[n].message]]
    /\ IF \E n \in DOMAIN errors : errors[n].class = FatalIDValidationError
       THEN exit_code' = 1 /\ pc' = "exit" /\ UNCHANGED id_columns
       ELSE UNCHANGED exit_code

\* lines 56-73 if an empty detected list did not end the run
HandleIdColumnsNoExit ==
    /\ pc = "handler"
    /\ ~CliGiven(args.id_columns)
    /\ call' = [op |-> "detect_id_columns", result |-> DetectIdColumnsResult]
    /\ id_columns' = DetectIdColumnsResult.value
    /\ pc' = "ids"
    /\ UNCHANGED <<exit_code, stderr>>
    /\ UNCHANGED <<source1_data, source2_data, column_mapping, config, partition,
                   result, mapper_vars, handler_vars, args, stdout>>

\* lines 56-73: the identifiers given, validated, or the detected ones
HandleIdColumns ==
    /\ pc = "handler"
    /\ IF CliGiven(args.id_columns)
       THEN LET given == Split(args.id_columns, ",")
                validation_errors == ValidateIdColumnsResult(given)
            IN  /\ call' = [op |-> "validate_id_columns", id_columns |-> given,
                            result |-> validation_errors]
                /\ IF validation_errors.status # "ok"
                   THEN ExitWithError(validation_errors.status) /\ UNCHANGED id_columns
                   ELSE IF validation_errors.value = PyNone
                   THEN ExitWithError("TypeError") /\ UNCHANGED id_columns
                   ELSE /\ ReportValidationErrors(validation_errors.value)
                        /\ id_columns' = given
                        /\ pc' = "ids"
       ELSE LET detected == DetectIdColumnsResult.value
            IN  /\ call' = [op |-> "detect_id_columns", result |-> DetectIdColumnsResult]
                /\ IF detected = <<>>
                   THEN ExitWithError("No suitable ID columns found") /\ UNCHANGED id_columns
                   ELSE /\ id_columns' = detected
                        /\ pc' = "ids"
                        /\ UNCHANGED <<exit_code, stderr>>
    /\ UNCHANGED <<source1_data, source2_data, column_mapping, config, partition,
                   result, mapper_vars, handler_vars, args, stdout>>

\* lines 76-80 without the warning
CheckDuplicatesSilent ==
    /\ pc = "ids"
    /\ pc' = "checked"
    /\ call' = [op |-> "find_duplicate_ids", id_columns |-> id_columns,
                result |-> FindDuplicateIdsResult(id_columns)]
    /\ UNCHANGED <<engine_vars, partition, result, mapper_vars, handler_vars, cli_vars>>

\* lines 76-80: find_duplicate_ids on source 1, a warning when there are any
CheckDuplicates ==
    /\ pc = "ids"
    /\ pc' = "checked"
    /\ LET duplicates == FindDuplicateIdsResult(id_columns)
       IN  /\ call' = [op |-> "find_duplicate_ids", id_columns |-> id_columns,
                       result |-> duplicates]
           /\ stderr' = IF duplicates.value # <<>>
                        THEN Append(stderr, [level |-> "Warning",
                                             about |-> "Duplicate IDs found",
                                             duplicates |-> duplicates.value])
                        ELSE stderr
    /\ UNCHANGED <<engine_vars, partition, result, mapper_vars, handler_vars,
                   args, exit_code, stdout>>

\* lines 83-100: the configuration, the two frames and the engine
CreateEngine ==
    /\ pc = "checked"
    /\ pc' = "ready"
    /\ config' = [case_sensitive |-> args.case_sensitive,
                  trim_strings |-> ~args.no_trim,
                  columns_to_compare |->
                      IF CliGiven(args.compare_columns)
                      THEN Split(args.compare_columns, ",") ELSE ColumnsNone]
    /\ source1_data' = DataFrame(data_sample, source1_columns)
    /\ source2_data' = DataFrame(SourceRows(args.source2), source2_columns)
    /\ UNCHANGED <<id_columns, column_mapping, partition, result, mapper_vars,
                   handler_vars, call, cli_vars>>

\* lines 104-115: the report on stdout or in the output file
GenerateReport ==
    /\ pc = "done"
    /\ result.status = "ok"
    /\ IF args.output_format = "csv" /\ ~CliGiven(args.output_file)
       THEN ExitWithError("ValueError") /\ UNCHANGED <<stdout, files>>
       ELSE /\ pc' = "exit"
            /\ UNCHANGED <<exit_code, stderr>>
            /\ IF CliGiven(args.output_file)
               THEN /\ files' = [p \in DOMAIN files \cup {args.output_file} |->
                                    IF p = args.output_file
                                    THEN [report |-> args.output_format]
                                    ELSE files[p]]
                    /\ UNCHANGED stdout
               ELSE /\ stdout' = Append(stdout, [report |-> args.output_format])
                    /\ UNCHANGED files
    /\ UNCHANGED <<engine_vars, partition, result, source1_columns, source2_columns,
                   handler_vars, call, args>>

\* lines 117-119 when compare() raised
CompareFailed ==
    /\ pc = "done"
    /\ result.status # "ok"
    /\ ExitWithError(result.status)
    /\ UNCHANGED <<engine_vars, partition, result, mapper_vars, handler_vars,
                   call, args, stdout>>

NextCli ==
    \/ CreateDataSources
    \/ CreateMapper
    \/ HandleColumnMapping
    \/ CreateHandler
    \/ HandleIdColumns
    \/ CheckDuplicates
    \/ CreateEngine
    \/ DoCompare
    \/ GenerateReport
    \/ CompareFailed

SpecCli == InitCli /\ [][NextCli]_vars

----------------------------------------------------------------------------
(* The command line: what a run shows *)

Exited == pc = "exit"

\* compare() was called
ComparisonReached == result.status # "none"

\* the report was printed or written to the output file
ReportRendered ==
    \/ stdout # <<>>
    \/ CliGiven(args.output_file) /\ args.output_file \in DOMAIN files

\* the last line on the error stream is an error message
ErrorShown == stderr # <<>> /\ stderr[Len(stderr)].level = "Error"

\* both sources are there to read
Readable == args.source1 \in DOMAIN files /\ args.source2 \in DOMAIN files

\* the columns a source file names in its first line
HeaderOf(file_path) == Split(files[file_path].first_line, ",")

\* no mapping file is given, or it names columns of the two sources only
MappingValid ==
    \/ ~CliGiven(args.mapping)
    \/ /\ args.mapping \in DOMAIN files
       /\ files[args.mapping].kind = "object"
       /\ \A n \in DOMAIN files[args.mapping].column_mapping :
             /\ files[args.mapping].column_mapping[n][1] \in Range(HeaderOf(args.source1))
             /\ files[args.mapping].column_mapping[n][2] \in Range(HeaderOf(args.source2))

\* the key columns given on the command line
SuppliedKeys == Split(args.id_columns, ",")

\* every supplied key column is in source 1 and holds a value in every record
SuppliedKeysValid ==
    \A n \in DOMAIN SuppliedKeys :
        /\ SuppliedKeys[n] \in Range(HeaderOf(args.source1))
        /\ \A m \in DOMAIN files[args.source1].rows :
              files[args.source1].rows[m][SuppliedKeys[n]] \notin {Null, <<>>}

(* C21 *)

\* C21: a run whose sources are readable, whose mapping is valid and whose
\* supplied key columns all exist in source 1 without null values reaches
\* the comparison, renders the report and ends with exit code 0.
SuccessfulRunExitsZero ==
    (/\ Exited
     /\ Readable
     /\ MappingValid
     /\ CliGiven(args.id_columns)
     /\ SuppliedKeysValid
     /\ ~CliGiven(args.compare_columns)
     /\ args.output_format = "console") =>
        /\ exit_code = 0
        /\ ComparisonReached
        /\ ReportRendered

(* C22 *)

\* validation of the mapping met a column that is not in its source
FatalMapping ==
    /\ call.op = "validate_mapping"
    /\ \E n \in DOMAIN call.mapping :
          \/ call.mapping[n][1] \notin Range(source1_columns)
          \/ call.mapping[n][2] \notin Range(source2_columns)

\* a supplied key column is not in source 1
FatalKeyNotFound ==
    /\ call.op = "validate_id_columns"
    /\ \E n \in DOMAIN call.id_columns : call.id_columns[n] \notin Range(columns)

\* no key column was supplied and none can be inferred
FatalNoKey ==
    /\ call.op = "detect_id_columns"
    /\ \A col \in Range(columns) : ~NamedLikeId(col) /\ ~MostlyDistinct(col)

\* C22: when the validation of the mapping fails, a supplied key column is
\* not found, or no key column is supplied and none can be inferred, the run
\* has ended with exit code 1 and an error message, and neither the
\* comparison nor the report was reached.
FatalAbortsBeforeComparison ==
    (FatalMapping \/ FatalKeyNotFound \/ FatalNoKey) =>
        /\ Exited
        /\ ~ENABLED NextCli
        /\ exit_code = 1
        /\ ErrorShown
        /\ ~ComparisonReached
        /\ partition = NoPartition
        /\ ~ReportRendered

\* both sources hold records, no key column is supplied, none is inferred
FatalAbortsBeforeComparisonWitness ==
    /\ FatalNoKey
    /\ Exited
    /\ exit_code = 1
    /\ data_sample # <<>>
    /\ files[args.source2].rows # <<>>

(* C23 *)

\* find_duplicate_ids reported one composite key or more
DuplicatesReported ==
    call.op = "find_duplicate_ids" /\ call.result.value # <<>>

\* the warning that lists these duplicates is on the error stream
DuplicateWarning(duplicates) ==
    \E n \in DOMAIN stderr :
        /\ stderr[n].level = "Warning"
        /\ stderr[n].duplicates = duplicates

KeyIn2(row) == [i \in DOMAIN id_columns |-> Str(Get(row, KeyColumn2(id_columns[i])))]

\* the composite keys that two records of source 2 share
RepeatedKeys2 ==
    {KeyIn2(source2_data.rows[m]) : m \in
        {n \in DOMAIN source2_data.rows :
            \E o \in DOMAIN source2_data.rows :
                o # n /\ KeyIn2(source2_data.rows[o]) = KeyIn2(source2_data.rows[n])}}

\* the composite keys that two records of source 1 share
RepeatedKeys1 ==
    {RowKey(source1_data.rows[m], FALSE) : m \in
        {n \in DOMAIN source1_data.rows :
            \E o \in DOMAIN source1_data.rows :
                o # n /\ RowKey(source1_data.rows[o], FALSE)
                            = RowKey(source1_data.rows[n], FALSE)}}

\* some warning on the error stream lists the key
WarnedAbout(k) ==
    \E n \in DOMAIN stderr :
        /\ stderr[n].level = "Warning"
        /\ \E e \in DOMAIN stderr[n].duplicates :
              stderr[n].duplicates[e].id_values = ZipId(k)

\* C27: in a run that reaches the comparison, a warning has been shown for
\* every composite key that two records of source 1 share and for every
\* composite key that two records of source 2 share.
DuplicatesWarnedForEachSource ==
    (pc \in {"ready", "done"} \/ (Exited /\ ComparisonReached)) =>
        /\ \A k \in RepeatedKeys1 : WarnedAbout(k)
        /\ \A k \in RepeatedKeys2 : WarnedAbout(k)

(* C29 *)

\* the records find_duplicate_ids counts beyond the first of their key
CountedBeyondFirst(duplicates) ==
    LET sum[n \in 0..Len(duplicates)] ==
            IF n = 0 THEN 0 ELSE sum[n - 1] + duplicates[n].count - 1
    IN  sum[Len(duplicates)]

\* C29: for the batch of source 1 and the key columns of the run, the number
\* of records less the number of entries of the index is the sum of
\* count - 1 over the duplicates reported, and no duplicate is reported
\* exactly when the batch has one key in onlyInA or common for each record.
DuplicatesAccountForDrops ==
    (pc \in {"ready", "done"} \/ (Exited /\ ComparisonReached)) =>
        /\ call.op = "find_duplicate_ids"
        /\ Len(source1_data.rows)
              - Cardinality(DOMAIN CreateIndex(source1_data, FALSE))
              = CountedBeyondFirst(call.result.value)
        /\ partition.computed =>
              (call.result.value = <<>>
                  <=> Len(source1_data.rows) =
                         Cardinality((partition.unique_to_source1
                                      \cup partition.common_ids) \cap Keys1))

\* source 1 holds two records of one key: one entry of count 2, one record
\* dropped, and the comparison returned
DuplicatesAccountForDropsWitness ==
    /\ Exited
    /\ result.status = "ok"
    /\ Len(source1_data.rows) = 2
    /\ Cardinality(DOMAIN CreateIndex(source1_data, FALSE)) = 1
    /\ Len(call.result.value) = 1
    /\ call.result.value[1].count = 2
    /\ partition.common_ids # {}

====
